---- MODULE Spec2Model ----
(***************************************************************************)
(* Evaluation-metrics engine of the data-analysis assistant                *)
(* (src/evaluation_metrics.py) and the chat-turn handler that drives it    *)
(* (src/frontend.py, send_message).                                        *)
(*                                                                         *)
(* Numbers.  The program computes its scores in floating point.  The model *)
(* computes them exactly, as integers counted in 1/Unit: the score 0.25 is *)
(* Unit \div 4.  Every division goes through ExactDiv, which has no value  *)
(* when the quotient is not an integer, so a run never rounds silently.    *)
(*                                                                         *)
(* Text.  A question is a set of phrases and a code string a set of lines, *)
(* both drawn from a fixed vocabulary and joined in vocabulary order       *)
(* (phrases by a blank, lines by a line break).  What the program's        *)
(* regular expressions and substring tests find in each phrase or line is  *)
(* tabulated (PhraseHits, LineHits, ...); the tables hold the pattern      *)
(* strings of the source, so `re.search(p, code)` is "p is among the hits  *)
(* of some line of code".                                                  *)
(***************************************************************************)
EXTENDS Integers, Sequences, FiniteSets, TLC

VARIABLES
    \* ---- one call of calculate_evaluation_metrics (SpecCalc)
    question,            \* the question text: a set of phrases
    generated_code,      \* the code text: a set of lines
    execution_result,    \* [type, data]: the outcome handed to the call
    csv_file,            \* the dataset path handed to the call
    execution_time,      \* <<>> for None, <<ms>> for a measured time
    recovery_attempts,   \* the list of repair attempts handed to the call
    metrics,             \* <<>> before the call, <<record>> after it
    \* ---- one call of analyze_error_recovery (SpecRecovery)
    rec_result,          \* the outcome handed to the call
    rec_attempts,        \* the attempts handed to the call
    rec_metrics,         \* <<>> before the call, <<record>> after it
    \* ---- one chat session served by send_message (Spec)
    chat_session,        \* chat_sessions[session_id]: csv_file, messages, history
    pc,                  \* where each request thread stands in send_message
    frame,               \* the local variables of each request thread
    response,            \* the last HTTP response each thread returned
    metrics_file,        \* chat_history/<session_id>/metrics.json
    summary_file,        \* chat_history/<session_id>/metrics_summary.json
    turns,               \* requests received so far
    faults,              \* I/O failures so far
    \* ---- history of the session, kept for the properties only
    first_result,        \* per thread: the outcome of the turn's first execution
    seen,                \* per thread: what the running save call found on disk
    saved,               \* the records handed to save_evaluation_metrics, in call order
    \* ---- one metrics log handed to the two summarizers (SpecSummary)
    sum_log,             \* the list of records in metrics.json
    sum_saved,           \* <<>>, or <<the summary save_evaluation_metrics builds>>
    sum_updated,         \* <<>>, or <<what update_all_metrics_summaries does>>
    \* ---- one run of the static inspector on a code string (SpecInspect)
    insp_code,           \* the code text: a set of lines
    insp_report,         \* <<>> before the run, <<[code_quality, safety]>> after it
    \* ---- a repeated call of calculate_evaluation_metrics (SpecRepeat)
    other_calls,         \* the records of calls made between the two, on other inputs
    metrics_again,       \* <<>>, or <<the record the second call returns>>
    \* ---- the clock datetime.now() reads
    clock

calcVars == <<question, generated_code, execution_result, csv_file,
              execution_time, recovery_attempts, metrics>>
recVars == <<rec_result, rec_attempts, rec_metrics>>
sessVars == <<chat_session, pc, frame, response, metrics_file, summary_file, turns, faults,
              first_result, seen, saved>>
sumVars == <<sum_log, sum_saved, sum_updated>>
inspVars == <<insp_code, insp_report>>
repVars == <<other_calls, metrics_again>>
vars == <<calcVars, recVars, sessVars, sumVars, inspVars, repVars, clock>>

(***************************************************************************)
(* Exact arithmetic in units of 1/Unit                                     *)
(***************************************************************************)
Unit == 128 * 27 * 625

ExactDiv(a, b) == CHOOSE q \in {a \div b} : q * b = a

\* the float n/d
Frac(n, d) == ExactDiv(n * Unit, d)

\* x * (n/d) for a score x
Times(x, n, d) == ExactDiv(x * n, d)

RECURSIVE GCD(_, _)
GCD(a, b) == IF b = 0 THEN a ELSE GCD(b, a % b)

\* the float a / b of two scores a and b
Ratio(a, b) ==
    LET g == GCD(Unit, b)
    IN  ExactDiv(a * (Unit \div g), b \div g)

Min2(a, b) == IF a <= b THEN a ELSE b
Max2(a, b) == IF a >= b THEN a ELSE b

RECURSIVE SumFn(_)
SumFn(f) ==
    IF DOMAIN f = {} THEN 0
    ELSE LET x == CHOOSE y \in DOMAIN f : TRUE
         IN  f[x] + SumFn([y \in DOMAIN f \ {x} |-> f[y]])

RECURSIVE SumSeq(_)
SumSeq(s) == IF s = <<>> THEN 0 ELSE Head(s) + SumSeq(Tail(s))

\* Python's None where the program keeps a string or nothing
None == "<None>"

(***************************************************************************)
(* Input vocabulary and what the program's patterns find in it             *)
(***************************************************************************)
\* the phrases a question is made of, in the order they are joined
PhraseOrder == <<"q_avg", "q_stats", "q_top", "q_by">>

\* the lines a code string is made of, in the order they are joined
LineOrder == <<"c_import", "c_group", "c_filter", "c_stats", "c_plot", "c_bad", "c_long", "c_merge", "c_loops">>

\* further lines, which only the static inspector is run on
ExtraLineOrder == <<"c_sys", "c_net", "c_kw", "c_total", "c_wide">>

Range(s) == {s[i] : i \in DOMAIN s}
Phrases == Range(PhraseOrder)
Lines == Range(LineOrder)
AllLines == Lines \cup Range(ExtraLineOrder)

\* the lines of a code string from first to last
SortedLines(code) == SelectSeq(LineOrder \o ExtraLineOrder, LAMBDA l : l \in code)

\* the header row of the dataset (pd.read_csv(csv_file, nrows=0).columns)
DatasetColumns == <<"Sales", "Region", "Unit_Price">>

\* str.lower() on the column names
Lower(s) ==
    CASE s = "Sales" -> "sales"
      [] s = "Region" -> "region"
      [] s = "Unit_Price" -> "unit_price"
      [] OTHER -> s

\* str.replace('_', ' ') on the lower-cased column names
UnderscoreToSpace(s) ==
    CASE s = "unit_price" -> "unit price"
      [] OTHER -> s

\* The tables below list, per phrase (lower-cased, as question.lower() makes
\* it) and per line, the patterns of the source that match it.
\* ----------------------------------------------------------------------
\*   q_avg     'What is the average of column Sales'
\*   q_stats   'total maximum minimum count per Region'
\*   q_top     'top 5 of the merged data where unit price greater than 10 plot a chart'
\*   q_by      'grouped by Region, sorted descending?'
PhraseHits(ph) ==
    CASE ph = "q_avg" -> {"average", "sales"}
      [] ph = "q_stats" -> {"total", "maximum", "max", "minimum", "min", "count", "per", "in", "region"}
      [] ph = "q_top" -> {"top\\s+(\\d+)", "where", "greater than", "chart", "plot", "top", "merge", "unit price"}
      [] ph = "q_by" -> {"by", "or", "in", "sort", "descending", "region"}
      [] OTHER -> {}

\* question_lower.count(keyword) per phrase, for the filter keywords
PhraseCount(ph) ==
    CASE ph = "q_stats" -> [k \in {"in"} |-> CASE k = "in" -> 1]
      [] ph = "q_top" -> [k \in {"where", "greater than"} |-> CASE k = "where" -> 1 [] k = "greater than" -> 1]
      [] ph = "q_by" -> [k \in {"or", "in"} |-> CASE k = "or" -> 1 [] k = "in" -> 1]
      [] OTHER -> <<>>

\* findall('group\\s+by\\s+([^,]+(?:,\\s*[^,]+)+)') per phrase, each match split on "," and stripped
\* findall('by\\s+([^,]+(?:,\\s*[^,]+)+)') per phrase, each match split on "," and stripped
PhraseByLists(ph) ==
    CASE ph = "q_avg" -> <<<<>>, <<>>>>
      [] ph = "q_stats" -> <<<<>>, <<>>>>
      [] ph = "q_top" -> <<<<>>, <<>>>>
      [] ph = "q_by" -> <<<<>>, <<<<"region", "sorted descending?">>>>>>
      [] OTHER -> << <<>>, <<>> >>

\*   c_import  'import pandas as pd'
\*   c_group   "result = df.groupby('Region')['Sales'].mean().sort_values(ascending=False)"
\*   c_filter  "top = df[df['Unit_Price'] > 10].head(5)"
\*   c_stats   "s = df['Sales']; out = (s.mean(), s.sum(), s.max(), s.min(), s.count(), df.groupby('Region').size())"
\*   c_plot    "for k in ['Sales']: plt.plot(df[k])"
\*   c_bad     "result = df['Sales'.mean("
\*   c_long    '# ------------------...(600 chars)'
\*   c_merge   "m = df.merge(df2, on='Region')"
\*   c_loops   "pairs = [a for a in df['Sales'] for b in df['Region'] if a if b]"
\*   c_sys     'import os; status = ...(128 chars)'
\*   c_net     "open('/var/tmp/exports/regional_sales_export.csv', 'w').write(requests.get('https://example.org/regional/sales').text)"
\*   c_kw      "note = 'if elif else for while try'; f = open('notes.txt', 'r')"
\*   c_total   'total = 0'
\*   c_wide    "wide = df[['Sales', ...(135 chars)"
LineHits(l) ==
    CASE l = "c_import" -> {"^import\\s+|^from\\s+.*\\s+import"}
      [] l = "c_group" -> {"\\.mean\\(", "\\.groupby\\(", "\\.sort_values\\(", "result\\s*=", "\\.sort_values\\(.*ascending\\s*=\\s*False", "\\.groupby\\(\\[?([^\\]]+)\\]?\\)", "\\.sort_values\\(|\\.sort_index\\(|\\.nlargest\\(|\\.nsmallest\\("}
      [] l = "c_filter" -> {"\\.head\\(", "df\\[.*\\]"}
      [] l = "c_stats" -> {"\\.mean\\(", "\\.sum\\(", "\\.count\\(", "\\.groupby\\(", "df\\[.*\\]", "\\.max\\(", "\\.min\\(", "\\.size\\(", "\\.groupby\\(\\[?([^\\]]+)\\]?\\)"}
      [] l = "c_plot" -> {"\\bfor\\b", "df\\[.*\\]", "plt\\.", "\\.plot\\("}
      [] l = "c_bad" -> {"\\.mean\\(", "result\\s*="}
      [] l = "c_long" -> {"#.*"}
      [] l = "c_merge" -> {"\\.merge\\(", "\\.merge\\(|\\.join\\(|\\.concat\\("}
      [] l = "c_loops" -> {"\\bif\\b", "\\bfor\\b", "df\\[.*\\]"}
      [] l = "c_sys" -> {"^import\\s+|^from\\s+.*\\s+import", "os\\.system", "import\\s+os"}
      [] l = "c_net" -> {"open\\(.*[\\'\"]w", "\\.write\\(", "requests\\."}
      [] l = "c_kw" -> {"\\bif\\b", "\\belif\\b", "\\belse\\b", "\\bfor\\b", "\\bwhile\\b", "\\btry\\b", "open\\(.*[\\'\"]r"}
      [] l = "c_total" -> {}
      [] l = "c_wide" -> {"df\\[.*\\]"}
      [] OTHER -> {}

LineFindall(l) ==
    CASE l = "c_filter" -> [p \in {"df\\[.*\\]|\\.query\\(|\\.loc\\[.*\\]|\\.iloc\\[.*\\]"} |-> CASE p = "df\\[.*\\]|\\.query\\(|\\.loc\\[.*\\]|\\.iloc\\[.*\\]" -> 1]
      [] l = "c_stats" -> [p \in {"df\\[.*\\]|\\.query\\(|\\.loc\\[.*\\]|\\.iloc\\[.*\\]"} |-> CASE p = "df\\[.*\\]|\\.query\\(|\\.loc\\[.*\\]|\\.iloc\\[.*\\]" -> 1]
      [] l = "c_plot" -> [p \in {"\\bfor\\s+\\w+\\s+in\\s+", "df\\[.*\\]|\\.query\\(|\\.loc\\[.*\\]|\\.iloc\\[.*\\]", "\\bfor\\b"} |-> CASE p = "\\bfor\\s+\\w+\\s+in\\s+" -> 1 [] p = "df\\[.*\\]|\\.query\\(|\\.loc\\[.*\\]|\\.iloc\\[.*\\]" -> 1 [] p = "\\bfor\\b" -> 1]
      [] l = "c_loops" -> [p \in {"\\bfor\\s+\\w+\\s+in\\s+", "df\\[.*\\]|\\.query\\(|\\.loc\\[.*\\]|\\.iloc\\[.*\\]", "\\bif\\b", "\\bfor\\b"} |-> CASE p = "\\bfor\\s+\\w+\\s+in\\s+" -> 2 [] p = "df\\[.*\\]|\\.query\\(|\\.loc\\[.*\\]|\\.iloc\\[.*\\]" -> 1 [] p = "\\bif\\b" -> 2 [] p = "\\bfor\\b" -> 2]
      [] l = "c_kw" -> [p \in {"\\bwhile\\s+", "\\bif\\b", "\\belif\\b", "\\belse\\b", "\\bfor\\b", "\\bwhile\\b", "\\btry\\b"} |-> CASE p = "\\bwhile\\s+" -> 1 [] p = "\\bif\\b" -> 1 [] p = "\\belif\\b" -> 1 [] p = "\\belse\\b" -> 1 [] p = "\\bfor\\b" -> 1 [] p = "\\bwhile\\b" -> 1 [] p = "\\btry\\b" -> 1]
      [] l = "c_wide" -> [p \in {"df\\[.*\\]|\\.query\\(|\\.loc\\[.*\\]|\\.iloc\\[.*\\]"} |-> CASE p = "df\\[.*\\]|\\.query\\(|\\.loc\\[.*\\]|\\.iloc\\[.*\\]" -> 1]
      [] OTHER -> <<>>

LineColumnRefs(l) ==
    CASE l = "c_filter" -> {"unit_price"}
      [] l = "c_stats" -> {"sales"}
      [] l = "c_loops" -> {"sales", "region"}
      [] l = "c_wide" -> {"sales", "region", "unit_price"}
      [] OTHER -> {}

LineGroupbyArgs(l) ==
    CASE l = "c_group" -> <<"Region">>
      [] l = "c_stats" -> <<"Region').size()">>
      [] OTHER -> <<>>

LineLen(l) ==
    CASE l = "c_import" -> 19
      [] l = "c_group" -> 74
      [] l = "c_filter" -> 39
      [] l = "c_stats" -> 100
      [] l = "c_plot" -> 35
      [] l = "c_bad" -> 25
      [] l = "c_long" -> 600
      [] l = "c_merge" -> 30
      [] l = "c_loops" -> 64
      [] l = "c_sys" -> 128
      [] l = "c_net" -> 118
      [] l = "c_kw" -> 63
      [] l = "c_total" -> 9
      [] l = "c_wide" -> 135
      [] OTHER -> 0

LineParse(l) ==
    CASE l = "c_import" -> "ok"
      [] l = "c_group" -> "ok"
      [] l = "c_filter" -> "ok"
      [] l = "c_stats" -> "ok"
      [] l = "c_plot" -> "ok"
      [] l = "c_bad" -> "SyntaxError"
      [] l = "c_long" -> "ok"
      [] l = "c_merge" -> "ok"
      [] l = "c_loops" -> "ok"
      [] l = "c_sys" -> "ok"
      [] l = "c_net" -> "ok"
      [] l = "c_kw" -> "ok"
      [] l = "c_total" -> "ok"
      [] l = "c_wide" -> "ok"
      [] OTHER -> "ok"

ErrorHits(msg) ==
    CASE msg = "Execution error: name 'dff' is not defined" -> {}
      [] msg = "Execution error: invalid syntax (<string>, line 1)" -> {"syntax", "invalid"}
      [] msg = "Execution error: 'DataFrame' object has no attribute 'average'" -> {"attribute", "has no attribute"}
      [] msg = "Recovery attempt failed: Error generating code: timeout" -> {}
      [] msg = "Code generation failed" -> {}
      [] msg = "Error processing request: Error generating code: timeout" -> {}
      [] OTHER -> {}

SubstringPairs ==
    {<<"region", "Region">>, <<"region", "Region').size()">>}

(***************************************************************************)
(* Pattern scanning                                                        *)
(***************************************************************************)
\* re.search(p, question_lower) and `p in question_lower`
QuestionSearch(p, q) == \E ph \in q : p \in PhraseHits(ph)

\* re.search(p, code, flags)
CodeSearch(p, code) == \E l \in code : p \in LineHits(l)

\* len(re.findall(p, code, flags))
FindallCount(p, code) ==
    SumFn([l \in code |-> IF p \in DOMAIN LineFindall(l) THEN LineFindall(l)[p] ELSE 0])

\* len(code)
CodeLength(code) ==
    IF code = {} THEN 0
    ELSE SumFn([l \in code |-> LineLen(l)]) + (Cardinality(code) - 1)

(***************************************************************************)
(* Static code inspector                                                   *)
(***************************************************************************)
check_syntax_correctness_silent(code) ==
    [syntax_valid |-> \A l \in code : LineParse(l) = "ok", syntax_errors |-> <<>>]

check_syntax_correctness(code) ==
    LET srt == SortedLines(code)
        bad == {i \in 1..Len(srt) : LineParse(srt[i]) # "ok"}
        first == CHOOSE i \in bad : \A j \in bad : i <= j
    IN  IF bad = {}
        THEN [syntax_valid |-> TRUE, syntax_errors |-> <<>>]
        ELSE IF LineParse(srt[first]) = "SyntaxError"
        THEN [syntax_valid |-> FALSE,
              syntax_errors |-> << [line |-> first,
                                    message |-> "SyntaxError",
                                    text |-> srt[first]] >>]
        ELSE [syntax_valid |-> FALSE,
              syntax_errors |-> << [message |-> LineParse(srt[first])] >>]

complexity_keywords ==
    <<"\\bif\\b", "\\belif\\b", "\\belse\\b", "\\bfor\\b", "\\bwhile\\b",
      "\\btry\\b", "\\bexcept\\b", "\\bwith\\b">>

ReadabilityStart == 10
LongLineLimit == 100
CommentLineLimit == 10
ComplexityLimit == 5

\* the readability penalties of check_code_quality
long_line_penalty(long_lines, n_lines) == IF 5 * long_lines > n_lines THEN 2 ELSE 0

comment_penalty_any(has_comments, line_count) ==
    IF line_count > CommentLineLimit THEN 1 ELSE 0

comment_penalty(has_comments, line_count) ==
    IF ~has_comments /\ line_count > CommentLineLimit THEN 1 ELSE 0

complexity_penalty(complexity_score) ==
    IF complexity_score > ComplexityLimit THEN 1 ELSE 0

check_code_quality(code) ==
    LET \* code.split('\n'): the empty string splits into one empty line
        n_lines == IF code = {} THEN 1 ELSE Cardinality(code)
        line_count == Cardinality({l \in code : LineLen(l) > 0})
        has_imports == CodeSearch("^import\\s+|^from\\s+.*\\s+import", code)
        has_comments == CodeSearch("#.*", code)
        complexity_count ==
            Cardinality({i \in DOMAIN complexity_keywords :
                            CodeSearch(complexity_keywords[i], code)})
        long_lines == Cardinality({l \in code : LineLen(l) > LongLineLimit})
        p1 == long_line_penalty(long_lines, n_lines)
        p2 == comment_penalty(has_comments, line_count)
        p3 == complexity_penalty(complexity_count)
    IN  [has_imports |-> has_imports,
         has_comments |-> has_comments,
         line_count |-> line_count,
         complexity_score |-> complexity_count,
         readability_score |-> Max2(0, ReadabilityStart - p1 - p2 - p3)]

dangerous_patterns ==
    [file_write |-> {"\\.to_csv\\(", "\\.to_excel\\(", "open\\(.*[\\'\"]w", "\\.write\\("},
     file_read |-> {"open\\(.*[\\'\"]r", "pd\\.read_"},
     network |-> {"requests\\.", "urllib\\.", "http\\."},
     system |-> {"os\\.system", "subprocess\\.", "exec\\(", "eval\\("},
     dangerous_imports |-> {"import\\s+os", "import\\s+subprocess", "import\\s+sys"}]

check_code_safety_unfloored(code) ==
    LET safety_issues ==
            {[category |-> c, pattern |-> p,
              severity |-> IF c \in {"system", "network"} THEN "high" ELSE "medium"] :
                <<c, p>> \in {cp \in UNION {{<<c2, p2>> : p2 \in dangerous_patterns[c2]} :
                                             c2 \in DOMAIN dangerous_patterns} :
                               CodeSearch(cp[2], code)}}
        n == Cardinality(safety_issues)
    IN  [is_safe |-> n = 0,
         safety_issues |-> safety_issues,
         safety_score |-> IF n = 0 THEN Unit ELSE Unit - n * Frac(2, 10)]

check_code_safety(code) ==
    LET safety_issues ==
            {[category |-> c, pattern |-> p,
              severity |-> IF c \in {"system", "network"} THEN "high" ELSE "medium"] :
                <<c, p>> \in {cp \in UNION {{<<c2, p2>> : p2 \in dangerous_patterns[c2]} :
                                             c2 \in DOMAIN dangerous_patterns} :
                               CodeSearch(cp[2], code)}}
        n == Cardinality(safety_issues)
    IN  [is_safe |-> n = 0,
         safety_issues |-> safety_issues,
         safety_score |-> IF n = 0 THEN Unit ELSE Max2(0, Unit - n * Frac(2, 10))]

(***************************************************************************)
(* Complexity estimator                                                    *)
(***************************************************************************)
loop_patterns ==
    <<"\\bfor\\s+\\w+\\s+in\\s+", "\\bwhile\\s+", "\\.apply\\(",
      "\\.iterrows\\(", "\\.itertuples\\(">>

pandas_ops ==
    [c \in {"O(1)", "O(n)", "O(n log n)", "O(n^2)"} |->
        CASE c = "O(1)" -> {"\\.head\\(", "\\.tail\\(", "\\.iloc\\[", "\\.loc\\[",
                            "\\.shape", "\\.dtypes"}
          [] c = "O(n)" -> {"\\.mean\\(", "\\.sum\\(", "\\.count\\(", "\\.unique\\(",
                            "\\.value_counts\\(", "\\.groupby\\(", "\\.sort_values\\(",
                            "\\.dropna\\(", "\\.fillna\\("}
          [] c = "O(n log n)" -> {"\\.sort_values\\(", "\\.sort_index\\("}
          [] c = "O(n^2)" -> {"\\.merge\\(", "\\.join\\(", "\\.concat\\(.*axis=1"}]

complexity_order == <<"O(1)", "O(n)", "O(n log n)", "O(n^2)", "O(n^3)">>

IndexOf(s, x) == CHOOSE i \in DOMAIN s : s[i] = x

\* the highest class of `order` that has a matching pattern in `table`
MaxMatched(table, order, code) ==
    LET hit == {i \in DOMAIN order :
                    /\ order[i] \in DOMAIN table
                    /\ \E p \in table[order[i]] : CodeSearch(p, code)}
    IN  IF hit = {} THEN order[1]
        ELSE order[CHOOSE i \in hit : \A j \in hit : j <= i]

time_complexity_scores(notation) ==
    CASE notation = "O(1)" -> Unit
      [] notation = "O(log n)" -> Frac(9, 10)
      [] notation = "O(n)" -> Frac(7, 10)
      [] notation = "O(n log n)" -> Frac(5, 10)
      [] notation = "O(n^2)" -> Frac(3, 10)
      [] notation = "O(n^3)" -> Frac(1, 10)
      [] OTHER -> Frac(5, 10)

analyze_time_complexity_single(code) ==
    LET nested_loops ==
            SumSeq([i \in DOMAIN loop_patterns |-> FindallCount(loop_patterns[i], code) * 1])
        base == MaxMatched(pandas_ops, complexity_order, code)
        max_complexity ==
            IF nested_loops >= 1
            THEN CASE base = "O(1)" -> "O(n)"
                   [] base = "O(n)" -> "O(n^2)"
                   [] OTHER -> base
            ELSE base
    IN  [notation |-> max_complexity,
         score |-> time_complexity_scores(max_complexity),
         nested_loops |-> nested_loops,
         estimated_operations |-> nested_loops + 1]

analyze_time_complexity(code) ==
    LET nested_loops ==
            SumSeq([i \in DOMAIN loop_patterns |-> FindallCount(loop_patterns[i], code) * 1])
        base == MaxMatched(pandas_ops, complexity_order, code)
        max_complexity ==
            IF nested_loops = 1
            THEN CASE base = "O(1)" -> "O(n)"
                   [] base = "O(n)" -> "O(n^2)"
                   [] OTHER -> base
            ELSE IF nested_loops >= 2
            THEN CASE base = "O(1)" -> "O(n^2)"
                   [] base = "O(n)" -> "O(n^2)"
                   [] OTHER -> "O(n^3)"
            ELSE base
    IN  [notation |-> max_complexity,
         score |-> time_complexity_scores(max_complexity),
         nested_loops |-> nested_loops,
         estimated_operations |-> nested_loops + 1]

space_indicators ==
    [c \in {"O(1)", "O(n)", "O(n^2)"} |->
        CASE c = "O(1)" -> {"\\.head\\(", "\\.tail\\(", "\\.iloc\\[", "\\.loc\\[",
                            "\\.shape", "\\.dtypes"}
          [] c = "O(n)" -> {"\\.copy\\(", "\\.drop\\(", "\\.dropna\\(", "\\.fillna\\(",
                            "\\.assign\\(", "result\\s*=", "df_new\\s*=", "df_filtered\\s*="}
          [] c = "O(n^2)" -> {"\\.merge\\(", "\\.join\\(", "\\.concat\\(", "\\.pivot\\(",
                              "\\.pivot_table\\("}]

space_order == <<"O(1)", "O(n)", "O(n^2)">>

space_scores(notation) ==
    CASE notation = "O(1)" -> Unit
      [] notation = "O(n)" -> Frac(6, 10)
      [] notation = "O(n^2)" -> Frac(2, 10)
      [] OTHER -> Frac(5, 10)

\* os.path.getsize(csv_file) in whole MB; <<>> when the file cannot be read
FileSizeMB(f) == IF f = "data.csv" THEN <<3>> ELSE <<>>

analyze_space_complexity(code, csv) ==
    LET space_complexity == MaxMatched(space_indicators, space_order, code)
        multiplier == CASE space_complexity = "O(1)" -> 1
                        [] space_complexity = "O(n)" -> 2
                        [] space_complexity = "O(n^2)" -> 4
    IN  [notation |-> space_complexity,
         score |-> space_scores(space_complexity),
         \* in whole MB
         estimated_memory_mb |->
            IF csv # "" /\ FileSizeMB(csv) # <<>>
            THEN FileSizeMB(csv)[1] * multiplier ELSE 0]

(***************************************************************************)
(* Intent analyzer                                                         *)
(***************************************************************************)
pandas_methods ==
    {"head", "tail", "mean", "sum", "max", "min", "count", "size",
     "shape", "dtypes", "columns", "index", "values", "copy", "drop",
     "fillna", "dropna", "groupby", "sort_values", "sort_index",
     "nlargest", "nsmallest", "query", "loc", "iloc", "apply", "agg",
     "merge", "join", "concat", "pivot", "pivot_table", "describe",
     "info", "isnull", "notnull", "unique", "value_counts", "sample"}

\* pd.read_csv(csv_file, nrows=0): <<>> when it raises
ReadCsvHeader(csv) == IF csv = "data.csv" THEN <<DatasetColumns>> ELSE <<>>

nl_pattern_names == <<"top_n", "first_n_rows", "bottom_n", "filtering", "visualization">>

nl_patterns(name) ==
    CASE name = "top_n" ->
            [question_patterns |-> {"top\\s+(\\d+)", "largest\\s+(\\d+)",
                                    "biggest\\s+(\\d+)", "highest\\s+(\\d+)"},
             code_patterns |-> {"\\.nlargest\\(", "\\.head\\(",
                                "\\.sort_values\\(.*ascending\\s*=\\s*False"},
             weight |-> Frac(6, 100)]
      [] name = "first_n_rows" ->
            [question_patterns |-> {"first\\s+(\\d+)\\s+rows?", "first\\s+(\\d+)",
                                    "extract.*first\\s+(\\d+)"},
             code_patterns |-> {"\\.head\\(", "\\.iloc\\[.*:\\s*\\d+", "\\.loc\\[.*:\\s*\\d+"},
             weight |-> Frac(6, 100)]
      [] name = "bottom_n" ->
            [question_patterns |-> {"bottom\\s+(\\d+)", "smallest\\s+(\\d+)", "lowest\\s+(\\d+)"},
             code_patterns |-> {"\\.nsmallest\\(", "\\.tail\\(",
                                "\\.sort_values\\(.*ascending\\s*=\\s*True"},
             weight |-> Frac(6, 100)]
      [] name = "filtering" ->
            [question_patterns |-> {"where", "filter", "only", "greater than",
                                    "less than", "equal to"},
             code_patterns |-> {"df\\[.*\\]", "\\.query\\(", "\\.loc\\[", "\\.iloc\\["},
             weight |-> Frac(6, 100)]
      [] name = "visualization" ->
            [question_patterns |-> {"chart", "graph", "plot", "visualize", "bar chart",
                                    "histogram", "pie chart"},
             code_patterns |-> {"plt\\.", "matplotlib", "seaborn", "sns\\.", "\\.plot\\(",
                                "fig\\s*=", "ax\\."},
             weight |-> Frac(6, 100)]

stat_pattern_names == <<"mean", "sum", "max", "min", "count", "groupby">>

stat_patterns(name) ==
    CASE name = "mean" ->
            [question |-> {"average", "mean", "avg"},
             code |-> {"\\.mean\\(", "\\.average\\("},
             weight |-> Frac(1, 10)]
      [] name = "sum" ->
            [question |-> {"sum", "total", "add"},
             code |-> {"\\.sum\\(", "\\.agg\\(.*sum"},
             weight |-> Frac(1, 10)]
      [] name = "max" ->
            [question |-> {"maximum", "max", "highest", "largest"},
             code |-> {"\\.max\\(", "\\.agg\\(.*max", "\\.nlargest\\("},
             weight |-> Frac(1, 10)]
      [] name = "min" ->
            [question |-> {"minimum", "min", "lowest", "smallest"},
             code |-> {"\\.min\\(", "\\.agg\\(.*min", "\\.nsmallest\\("},
             weight |-> Frac(1, 10)]
      [] name = "count" ->
            [question |-> {"count", "number of", "how many"},
             code |-> {"\\.count\\(", "\\.size\\(", "len\\(", "\\.shape\\[0\\]"},
             weight |-> Frac(1, 10)]
      [] name = "groupby" ->
            [question |-> {"group by", "by", "per", "for each"},
             code |-> {"\\.groupby\\(", "\\.pivot_table\\("},
             weight |-> Frac(1, 10)]

\* the columns of the dataset, lower-cased; empty without a readable file
available_columns(csv) ==
    IF csv # "" /\ ReadCsvHeader(csv) # <<>>
    THEN {Lower(c) : c \in Range(ReadCsvHeader(csv)[1])}
    ELSE {}

mentioned_in_question(q, csv) ==
    {col \in available_columns(csv) :
        QuestionSearch(col, q) \/ QuestionSearch(UnderscoreToSpace(col), q)}

extracted_columns(code) ==
    (UNION {LineColumnRefs(l) : l \in code}) \ pandas_methods

column_extraction_score_flat(q, code, csv) ==
    LET mentioned == mentioned_in_question(q, csv)
        extracted == extracted_columns(code)
        matched == Cardinality(mentioned \cap extracted)
    IN  IF mentioned # {}
        THEN IF extracted # {}
             THEN Times(Frac(matched, Cardinality(mentioned)), 4, 10)
             ELSE 0
        ELSE Frac(1, 10)

column_extraction_score(q, code, csv) ==
    LET mentioned == mentioned_in_question(q, csv)
        extracted == extracted_columns(code)
        matched == Cardinality(mentioned \cap extracted)
    IN  IF mentioned # {}
        THEN IF extracted # {}
             THEN Times(Frac(matched, Cardinality(mentioned)), 4, 10)
             ELSE 0
        ELSE IF extracted # {} THEN Frac(2, 10) ELSE Frac(1, 10)

nl_parsing_score(q, code) ==
    SumSeq([i \in DOMAIN nl_pattern_names |->
        LET pattern_info == nl_patterns(nl_pattern_names[i])
            question_matches == \E p \in pattern_info.question_patterns : QuestionSearch(p, q)
            code_matches == \E p \in pattern_info.code_patterns : CodeSearch(p, code)
        IN  IF question_matches /\ code_matches THEN pattern_info.weight
            ELSE IF question_matches /\ ~code_matches THEN Times(pattern_info.weight, 3, 10)
            ELSE 0])

StatQuestionMatches(name, q) == \E p \in stat_patterns(name).question : QuestionSearch(p, q)
\* every code pattern of the operation required, where the source asks for any
StatCodeMatches_all(name, code) == \A p \in stat_patterns(name).code : CodeSearch(p, code)

StatCodeMatches(name, code) == \E p \in stat_patterns(name).code : CodeSearch(p, code)

detected_stats(q) == SelectSeq(stat_pattern_names, LAMBDA name : StatQuestionMatches(name, q))

statistical_understanding_score_third(q, code) ==
    SumSeq([i \in DOMAIN stat_pattern_names |->
        LET name == stat_pattern_names[i]
        IN  IF StatQuestionMatches(name, q)
            THEN IF StatCodeMatches(name, code)
                 THEN stat_patterns(name).weight
                 ELSE Times(stat_patterns(name).weight, 3, 10)
            ELSE 0])

statistical_understanding_score(q, code) ==
    SumSeq([i \in DOMAIN stat_pattern_names |->
        LET name == stat_pattern_names[i]
        IN  IF StatQuestionMatches(name, q)
            THEN IF StatCodeMatches(name, code)
                 THEN stat_patterns(name).weight
                 ELSE Times(stat_patterns(name).weight, 2, 10)
            ELSE 0])

analyze_prompt_understanding(q, code, csv) ==
    LET col_score == column_extraction_score(q, code, csv)
        nl_score == nl_parsing_score(q, code)
        stat_score == statistical_understanding_score(q, code)
        score == col_score + nl_score + stat_score
        max_score == Frac(4, 10) + Frac(3, 10) + Frac(3, 10)
    IN  [understanding_score |-> IF max_score > 0 THEN Ratio(score, max_score) ELSE 0,
         details |-> [column_extraction_score |-> col_score,
                      nl_parsing_score |-> nl_score,
                      statistical_understanding_score |-> stat_score,
                      extracted_columns |-> extracted_columns(code),
                      mentioned_columns |-> mentioned_in_question(q, csv),
                      statistical_operations |-> detected_stats(q)]]

(***************************************************************************)
(* Requirement coverage analyzer                                           *)
(***************************************************************************)
filter_keywords ==
    {"and", "or", "where", "filter", "greater than", "less than",
     "equal to", "not equal", "contains", "in", "between"}

sort_keywords ==
    {"sort", "order", "ascending", "descending", "top", "bottom", "largest", "smallest"}

join_keywords == {"join", "merge", "combine", "match"}

RECURSIVE Flatten(_)
Flatten(ss) == IF ss = <<>> THEN <<>> ELSE Head(ss) \o Flatten(Tail(ss))

\* the column names the question lists after "group by" / "by": for each of
\* the two patterns in turn, every match split on "," and stripped
groupby_columns_mentioned(q) ==
    LET phs == SelectSeq(PhraseOrder, LAMBDA ph : ph \in q)
        PerPattern(k) == Flatten([i \in DOMAIN phs |-> Flatten(PhraseByLists(phs[i])[k])])
    IN  PerPattern(1) \o PerPattern(2)

\* the arguments of the first groupby call of the code; <<>> without one
groupby_cols_in_code(code) ==
    LET srt == SelectSeq(SortedLines(code), LAMBDA l : LineGroupbyArgs(l) # <<>>)
    IN  IF srt = <<>> THEN <<>> ELSE LineGroupbyArgs(srt[1])

\* a.lower() in b.lower()
LowerIn(a, b) == <<a, b>> \in SubstringPairs

\* the credit of the filter sub-check
filter_conditions_coverage(filter_count, filter_ops) ==
    IF filter_count > 1 /\ filter_ops < filter_count
    THEN Frac(filter_ops, filter_count) ELSE Unit

\* the credit of the groupby sub-check
groupby_columns_coverage_full(mentioned, has_groupby_call, matched) == Unit

groupby_columns_coverage(mentioned, has_groupby_call, matched) ==
    IF mentioned # <<>>
    THEN IF has_groupby_call THEN Frac(matched, Len(mentioned)) ELSE 0
    ELSE Unit

\* the credit of the sorting sub-check
sorting_coverage_strict(sort_mentioned, sort_in_code) ==
    IF ~sort_in_code THEN 0 ELSE Unit

sorting_coverage(sort_mentioned, sort_in_code) ==
    IF sort_mentioned /\ ~sort_in_code THEN 0 ELSE Unit

\* the credit of the join sub-check
join_conditions_coverage_half(join_mentioned, join_in_code) ==
    IF join_mentioned /\ ~join_in_code THEN Frac(5, 10) ELSE Unit

join_conditions_coverage(join_mentioned, join_in_code) ==
    IF join_mentioned /\ ~join_in_code THEN 0 ELSE Unit

analyze_requirement_coverage(q, code) ==
    LET filter_count == Cardinality({k \in filter_keywords : QuestionSearch(k, q)})
        filter_ops ==
            FindallCount("df\\[.*\\]|\\.query\\(|\\.loc\\[.*\\]|\\.iloc\\[.*\\]", code)
        filter_cov == filter_conditions_coverage(filter_count, filter_ops)
        filter_missing ==
            IF filter_count > 1 /\ filter_ops < filter_count
            THEN <<"Missing filter condition(s)">> ELSE <<>>
        mentioned == groupby_columns_mentioned(q)
        in_code == groupby_cols_in_code(code)
        has_groupby_call == CodeSearch("\\.groupby\\(\\[?([^\\]]+)\\]?\\)", code)
        matched ==
            Cardinality({i \in DOMAIN mentioned :
                            \E j \in DOMAIN in_code : LowerIn(mentioned[i], in_code[j])})
        groupby_cov == groupby_columns_coverage(mentioned, has_groupby_call, matched)
        groupby_missing ==
            IF mentioned # <<>>
            THEN IF has_groupby_call
                 THEN IF groupby_cov < Unit THEN <<"Missing groupby column(s)">> ELSE <<>>
                 ELSE <<"Groupby operation missing">>
            ELSE <<>>
        sort_mentioned == \E k \in sort_keywords : QuestionSearch(k, q)
        sort_in_code ==
            CodeSearch("\\.sort_values\\(|\\.sort_index\\(|\\.nlargest\\(|\\.nsmallest\\(", code)
        sorting_cov == sorting_coverage(sort_mentioned, sort_in_code)
        sort_missing ==
            IF sort_mentioned /\ ~sort_in_code THEN <<"Sorting operation missing">> ELSE <<>>
        join_mentioned == \E k \in join_keywords : QuestionSearch(k, q)
        join_in_code == CodeSearch("\\.merge\\(|\\.join\\(|\\.concat\\(", code)
        join_cov == join_conditions_coverage(join_mentioned, join_in_code)
        join_missing ==
            IF join_mentioned /\ ~join_in_code THEN <<"Join/merge operation missing">> ELSE <<>>
        score == Times(filter_cov, 3, 10) + Times(groupby_cov, 3, 10)
                 + Times(sorting_cov, 2, 10) + Times(join_cov, 2, 10)
        max_score == Frac(3, 10) + Frac(3, 10) + Frac(2, 10) + Frac(2, 10)
    IN  [coverage_score |-> IF max_score > 0 THEN Ratio(score, max_score) ELSE Unit,
         details |-> [filter_conditions_coverage |-> filter_cov,
                      groupby_columns_coverage |-> groupby_cov,
                      sorting_coverage |-> sorting_cov,
                      join_conditions_coverage |-> join_cov,
                      missing_requirements |->
                          filter_missing \o groupby_missing \o sort_missing \o join_missing]]

(***************************************************************************)
(* Recovery analyzer                                                       *)
(***************************************************************************)
\* `kw in error_lower`
ErrorHas(kw, error_message) == kw \in ErrorHits(error_message)

_classify_error(error_message) ==
    IF error_message = None \/ error_message = "" THEN "unknown"
    ELSE IF ErrorHas("keyerror", error_message) \/ ErrorHas("column", error_message)
         THEN "column_error"
    ELSE IF ErrorHas("syntax", error_message) \/ ErrorHas("invalid", error_message)
         THEN "syntax_error"
    ELSE IF ErrorHas("type", error_message) \/ ErrorHas("dtype", error_message)
         THEN "type_error"
    ELSE IF ErrorHas("index", error_message) \/ ErrorHas("out of range", error_message)
         THEN "index_error"
    ELSE IF ErrorHas("attribute", error_message) \/ ErrorHas("has no attribute", error_message)
         THEN "attribute_error"
    ELSE IF ErrorHas("value", error_message) THEN "value_error"
    ELSE "other_error"

\* the fix quality of one attempt
fix_quality_swapped(attempt, error_message) ==
    IF attempt.success THEN Unit
    ELSE IF _classify_error(error_message) = _classify_error(attempt.error)
         THEN Frac(5, 10)
         ELSE Frac(1, 10)

fix_quality(attempt, error_message) ==
    IF attempt.success THEN Unit
    ELSE IF _classify_error(error_message) # _classify_error(attempt.error)
         THEN Frac(5, 10)
         ELSE Frac(1, 10)

AttemptsNormalizer == 3

\* the result for an outcome that is no error
no_error_recovery_unset(n) ==
    [has_error |-> FALSE,
     error_message |-> None,
     recovery_attempts_count |-> n,
     recovery_success |-> FALSE,
     recovery_success_rate |-> Unit,
     error_fix_quality |-> Unit,
     recovery_details |-> <<>>,
     recovery_score |-> Unit]

no_error_recovery(n) ==
    [has_error |-> FALSE,
     error_message |-> None,
     recovery_attempts_count |-> n,
     recovery_success |-> TRUE,
     recovery_success_rate |-> Unit,
     error_fix_quality |-> Unit,
     recovery_details |-> <<>>,
     recovery_score |-> Unit]

\* the overall recovery score of an error outcome with n attempts
recovery_score_swapped(n, success_rate, error_fix_quality) ==
    IF n > 0
    THEN Times(success_rate, 3, 10) + Times(error_fix_quality, 5, 10)
         + Times(IF n >= AttemptsNormalizer THEN Unit ELSE Frac(n, AttemptsNormalizer), 2, 10)
    ELSE 0

recovery_score(n, success_rate, error_fix_quality) ==
    IF n > 0
    THEN Times(success_rate, 5, 10) + Times(error_fix_quality, 3, 10)
         + Times(IF n >= AttemptsNormalizer THEN Unit ELSE Frac(n, AttemptsNormalizer), 2, 10)
    ELSE 0

analyze_error_recovery(result, attempts) ==
    LET has_error == result.type = "error"
        error_message == IF has_error THEN result.data ELSE None
        n == Len(attempts)
        successful_recoveries == Cardinality({i \in DOMAIN attempts : attempts[i].success})
        fix_quality_scores == [i \in DOMAIN attempts |-> fix_quality(attempts[i], error_message)]
        success_rate == IF n > 0 THEN Frac(successful_recoveries, n) ELSE 0
        error_fix_quality == IF n > 0 THEN ExactDiv(SumSeq(fix_quality_scores), n) ELSE 0
    IN  IF ~has_error
        THEN no_error_recovery(n)
        ELSE [has_error |-> TRUE,
              error_message |-> error_message,
              recovery_attempts_count |-> n,
              recovery_success |-> successful_recoveries > 0,
              recovery_success_rate |-> success_rate,
              error_fix_quality |-> error_fix_quality,
              recovery_details |->
                  [i \in DOMAIN attempts |->
                      [attempt_number |-> i,
                       success |-> attempts[i].success,
                       error |-> attempts[i].error,
                       fix_quality |-> fix_quality_scores[i]]],
              recovery_score |-> recovery_score(n, success_rate, error_fix_quality)]

(***************************************************************************)
(* Metrics aggregator                                                      *)
(***************************************************************************)
correctness_score(syntax_valid, execution_success) ==
    (IF syntax_valid THEN Frac(5, 10) ELSE 0) + (IF execution_success THEN Frac(5, 10) ELSE 0)

quality_score(syntax_valid, quality, safety) ==
    (IF syntax_valid THEN Frac(3, 10) ELSE 0)
    + Times(safety.safety_score, 3, 10)
    + Times(Frac(quality.readability_score, 10), 2, 10)
    + (IF quality.has_imports /\ quality.line_count > 0 THEN Frac(2, 10) ELSE 0)

FastMs == 100
MediumMs == 1000
SlowMs == 5000
ShortCode == 500
MediumCode == 1000

performance_score(code_length, time, time_complexity, space_complexity, execution_success) ==
    (IF time # <<>>
     THEN IF time[1] < FastMs THEN Frac(30, 100)
          ELSE IF time[1] < MediumMs THEN Frac(25, 100)
          ELSE IF time[1] < SlowMs THEN Frac(15, 100)
          ELSE Frac(5, 100)
     ELSE IF code_length < ShortCode THEN Frac(20, 100)
          ELSE IF code_length < MediumCode THEN Frac(15, 100)
          ELSE Frac(10, 100))
    + Times(time_complexity.score, 3, 10)
    + Times(space_complexity.score, 2, 10)
    + (IF code_length < ShortCode THEN Frac(10, 100)
       ELSE IF code_length < MediumCode THEN Frac(5, 100)
       ELSE 0)
    + (IF execution_success THEN Frac(10, 100) ELSE 0)

overall_score_swapped(correctness, quality, performance, understanding, coverage, recovery) ==
    Times(correctness, 25, 100) + Times(quality, 15, 100) + Times(performance, 20, 100)
    + Times(understanding, 15, 100) + Times(coverage, 15, 100) + Times(recovery, 10, 100)

overall_score(correctness, quality, performance, understanding, coverage, recovery) ==
    Times(correctness, 25, 100) + Times(quality, 20, 100) + Times(performance, 15, 100)
    + Times(understanding, 15, 100) + Times(coverage, 15, 100) + Times(recovery, 10, 100)

calculate_evaluation_metrics(q, code, result, csv, model, time, attempts, now) ==
    LET syntax_check == check_syntax_correctness(code)
        execution_success == result.type # "error"
        correctness_metrics ==
            [syntax_valid |-> syntax_check.syntax_valid,
             syntax_errors |-> syntax_check.syntax_errors,
             execution_success |-> execution_success,
             execution_error |-> IF ~execution_success THEN result.data ELSE None,
             correctness_score |->
                correctness_score(syntax_check.syntax_valid, execution_success)]
        quality == check_code_quality(code)
        safety_metrics == check_code_safety(code)
        quality_metrics ==
            [has_imports |-> quality.has_imports,
             has_comments |-> quality.has_comments,
             line_count |-> quality.line_count,
             complexity_score |-> quality.complexity_score,
             readability_score |-> quality.readability_score,
             safety |-> safety_metrics,
             quality_score |-> quality_score(syntax_check.syntax_valid, quality, safety_metrics)]
        time_complexity == analyze_time_complexity(code)
        space_complexity == analyze_space_complexity(code, csv)
        performance_metrics ==
            [code_length |-> CodeLength(code),
             estimated_complexity |-> quality.complexity_score,
             line_count |-> quality.line_count,
             \* both time fields hold the time in whole milliseconds
             execution_time_seconds |-> time,
             execution_time_ms |-> time,
             time_complexity |-> time_complexity,
             space_complexity |-> space_complexity,
             performance_score |->
                performance_score(CodeLength(code), time, time_complexity,
                                  space_complexity, execution_success)]
        prompt_understanding == analyze_prompt_understanding(q, code, csv)
        requirement_coverage == analyze_requirement_coverage(q, code)
        error_recovery == analyze_error_recovery(result, attempts)
    IN  [timestamp |-> now,
         model |-> model,
         question |-> q,
         csv_file |-> csv,
         code_correctness |-> correctness_metrics,
         code_quality |-> quality_metrics,
         performance |-> performance_metrics,
         prompt_understanding |-> prompt_understanding,
         requirement_coverage |-> requirement_coverage,
         error_recovery |-> error_recovery,
         overall_score |->
            overall_score(correctness_metrics.correctness_score,
                          quality_metrics.quality_score,
                          performance_metrics.performance_score,
                          prompt_understanding.understanding_score,
                          requirement_coverage.coverage_score,
                          error_recovery.recovery_score)]

(***************************************************************************)
(* Session summary (save_evaluation_metrics, second half)                  *)
(***************************************************************************)
\* the float a / b as a fraction in lowest terms
Fraction(a, b) ==
    LET g == GCD(a, b)
    IN  IF a = 0 THEN <<0, 1>> ELSE <<a \div g, b \div g>>

\* sum(xs) / len(xs) if xs else 0
Average(xs) == IF xs = <<>> THEN <<0, 1>> ELSE Fraction(SumSeq(xs), Len(xs))

\* {x: xs.count(x) for x in set(xs)}
Distribution_distinct(xs) ==
    [x \in Range(xs) |-> 1]

Distribution(xs) ==
    [x \in Range(xs) |-> Cardinality({i \in DOMAIN xs : xs[i] = x})]

\* dict.get(key, default) on a record that may lack the key
Get(m, key, default) == IF key \in DOMAIN m THEN m[key] ELSE default

\* {}: the default of the nested lookups
EmptyDict == <<>>

\* m.get(section, {}).get(key, default)
Get2(m, section, key, default) == Get(Get(m, section, EmptyDict), key, default)

\* the elements of xs at the indices that satisfy keep, in order
Filtered(xs, keep) == [j \in 1..Cardinality(keep) |->
                        xs[CHOOSE i \in keep : Cardinality({k \in keep : k < i}) = j - 1]]

\* (successful_recoveries / errors_encountered) if errors_encountered > 0 else 0.0
summary_recovery_rate_one(successful_recoveries, errors_encountered) ==
    IF errors_encountered > 0
    THEN Fraction(successful_recoveries, errors_encountered)
    ELSE <<1, 1>>

summary_recovery_rate(successful_recoveries, errors_encountered) ==
    IF errors_encountered > 0
    THEN Fraction(successful_recoveries, errors_encountered)
    ELSE <<0, 1>>

\* the summary both summarizers build; they differ in the records whose
\* understanding, coverage and recovery figures they take: with_intent,
\* with_coverage, with_recovery
summary_data(session_id, metrics_list, now, with_intent, with_coverage, with_recovery) ==
    LET n == Len(metrics_list)
        all == 1..n
        Nested(section, key, default) ==
            [i \in all |-> Get2(metrics_list[i], section, key, default)]
        timed == {i \in all :
                    Get2(metrics_list[i], "performance", "execution_time_seconds", <<>>) # <<>>}
        execution_times ==
            Filtered([i \in all |->
                        Get2(metrics_list[i], "performance", "execution_time_seconds", <<0>>)[1]],
                     timed)
        avg_execution_time ==
            IF execution_times = <<>> THEN <<>>
            ELSE <<Fraction(SumSeq(execution_times), Len(execution_times))>>
        Notation(kind) ==
            [i \in all |->
                Get(Get2(metrics_list[i], "performance", kind, EmptyDict), "notation", "O(1)")]
        time_complexities == Notation("time_complexity")
        space_complexities == Notation("space_complexity")
        understanding_scores ==
            Filtered(Nested("prompt_understanding", "understanding_score", 0), with_intent)
        coverage_scores ==
            Filtered(Nested("requirement_coverage", "coverage_score", 0), with_coverage)
        recovery_scores ==
            Filtered(Nested("error_recovery", "recovery_score", 0), with_recovery)
        total_recovery_attempts ==
            SumSeq(Filtered(Nested("error_recovery", "recovery_attempts_count", 0),
                            with_recovery))
        successful_recoveries ==
            Cardinality({i \in all :
                            Get2(metrics_list[i], "error_recovery", "recovery_success", FALSE)})
        errors_encountered ==
            Cardinality({i \in all :
                            Get2(metrics_list[i], "error_recovery", "has_error", FALSE)})
        Mean(xs) == IF n > 0 THEN Fraction(SumSeq(xs), n) ELSE <<0, 1>>
    IN  [session_id |-> session_id,
         total_entries |-> n,
         last_updated |-> now,
         summary |->
            [average_overall_score |->
                Mean([i \in all |-> Get(metrics_list[i], "overall_score", 0)]),
             average_correctness_score |->
                Mean(Nested("code_correctness", "correctness_score", 0)),
             average_quality_score |-> Mean(Nested("code_quality", "quality_score", 0)),
             average_performance_score |->
                Mean(Nested("performance", "performance_score", 0)),
             average_understanding_score |-> Average(understanding_scores),
             average_coverage_score |-> Average(coverage_scores),
             average_recovery_score |-> Average(recovery_scores),
             average_execution_time_seconds |-> avg_execution_time,
             average_execution_time_ms |->
                IF avg_execution_time # <<>> /\ avg_execution_time[1][1] # 0
                THEN avg_execution_time ELSE <<>>,
             models_used |-> Range([i \in all |-> Get(metrics_list[i], "model", "unknown")]),
             total_questions |-> n,
             successful_executions |->
                Cardinality({i \in all :
                    Get2(metrics_list[i], "code_correctness", "execution_success", FALSE)}),
             errors_encountered |-> errors_encountered,
             total_recovery_attempts |-> total_recovery_attempts,
             successful_recoveries |-> successful_recoveries,
             recovery_success_rate |->
                summary_recovery_rate(successful_recoveries, errors_encountered),
             time_complexity_distribution |-> Distribution(time_complexities),
             space_complexity_distribution |-> Distribution(space_complexities)]]

\* the summary save_evaluation_metrics writes: every record counts everywhere
summarize(session_id, metrics_list, now) ==
    summary_data(session_id, metrics_list, now,
                 DOMAIN metrics_list, DOMAIN metrics_list, DOMAIN metrics_list)

\* the summary update_all_metrics_summaries writes: a record without a
\* sub-record is left out of that sub-record's figures
update_summary(session_id, metrics_list, now) ==
    summary_data(session_id, metrics_list, now,
                 {i \in DOMAIN metrics_list : "prompt_understanding" \in DOMAIN metrics_list[i]},
                 {i \in DOMAIN metrics_list : "requirement_coverage" \in DOMAIN metrics_list[i]},
                 {i \in DOMAIN metrics_list : "error_recovery" \in DOMAIN metrics_list[i]})

(***************************************************************************)
(* Bounds of the input domains                                             *)
(***************************************************************************)
\* the longest code string, in lines
MaxCodeLines == 2
\* the longest list of repair attempts handed to the recovery analyzer
MaxAttempts == 3

Questions == SUBSET Phrases
Codes == {c \in SUBSET Lines : Cardinality(c) <= MaxCodeLines}

ErrNameError == "Execution error: name 'dff' is not defined"
ErrSyntax == "Execution error: invalid syntax (<string>, line 1)"

\* outcomes of execute_code_safely: the type tag and the payload (a message for errors)
OkResult == [type |-> "number", data |-> "42.0"]
ErrorResult(msg) == [type |-> "error", data |-> msg]

\* a repair attempt as send_message records it
Attempt(num, ok, err) ==
    [attempt_number |-> num, code |-> <<>>, error |-> err, success |-> ok,
     execution_time |-> <<>>]

RECURSIVE SeqsUpTo(_, _)
SeqsUpTo(S, n) ==
    IF n = 0 THEN {<<>>}
    ELSE LET shorter == SeqsUpTo(S, n - 1)
         IN  shorter \cup {Append(s, x) : s \in {t \in shorter : Len(t) = n - 1}, x \in S}

\* every list of at most n attempts, numbered in order
AttemptLists(n) ==
    {[i \in DOMAIN s |-> Attempt(i, s[i][1], s[i][2])] :
        s \in SeqsUpTo(BOOLEAN \X {None, ErrNameError, ErrSyntax}, n)}

NoCalcVars ==
    /\ question = {}
    /\ generated_code = {}
    /\ execution_result = OkResult
    /\ csv_file = ""
    /\ execution_time = <<>>
    /\ recovery_attempts = <<>>
    /\ metrics = <<>>

NoRecVars ==
    /\ rec_result = OkResult
    /\ rec_attempts = <<>>
    /\ rec_metrics = <<>>

Threads == {"t1"}

\* the files of the session directory: absent, a JSON document, or bytes that
\* do not parse
FileAbsent == [state |-> "absent", content |-> <<>>]
FileCorrupt == [state |-> "corrupt", content |-> <<>>]
FileOk(content) == [state |-> "ok", content |-> content]

NoFrame ==
    [question |-> {}, selected_model |-> "gpt-4", generated_code |-> {},
     execution_result |-> ErrorResult("Code generation failed"),
     execution_time |-> <<>>, recovery_attempts |-> <<>>,
     exception |-> None, failed |-> FALSE, metrics |-> <<>>, metrics_list |-> <<>>]

NoSeen == [file |-> FileAbsent, read_ok |-> TRUE]

NoSessVars ==
    /\ chat_session = [csv_file |-> None, messages |-> <<>>, history |-> <<>>]
    /\ pc = [t \in Threads |-> "idle"]
    /\ frame = [t \in Threads |-> NoFrame]
    /\ response = [t \in Threads |-> <<>>]
    /\ metrics_file = FileAbsent
    /\ summary_file = FileAbsent
    /\ turns = 0
    /\ faults = 0
    /\ first_result = [t \in Threads |-> <<>>]
    /\ seen = [t \in Threads |-> NoSeen]
    /\ saved = <<>>

NoInspVars ==
    /\ insp_code = {}
    /\ insp_report = <<>>

NoRepVars ==
    /\ other_calls = <<>>
    /\ metrics_again = <<>>

NoSumVars ==
    /\ sum_log = <<>>
    /\ sum_saved = <<>>
    /\ sum_updated = <<>>

(***************************************************************************)
(* SpecCalc: one call of calculate_evaluation_metrics on any input          *)
(***************************************************************************)
CalcInit ==
    /\ question \in Questions
    /\ generated_code \in Codes
    /\ execution_result \in {OkResult, ErrorResult(ErrNameError)}
    /\ csv_file \in {"data.csv", "missing.csv"}
    /\ execution_time \in {<<>>, <<50>>, <<500>>, <<2000>>, <<10000>>}
    /\ recovery_attempts \in
          {<<>>,
           <<Attempt(1, TRUE, None)>>,
           <<Attempt(1, FALSE, ErrNameError)>>,
           <<Attempt(1, FALSE, ErrSyntax), Attempt(2, TRUE, None)>>}
    /\ metrics = <<>>
    /\ clock = 0
    /\ NoRecVars
    /\ NoSessVars
    /\ NoSumVars
    /\ NoInspVars
    /\ NoRepVars

Calculate ==
    /\ metrics = <<>>
    /\ metrics' = <<calculate_evaluation_metrics(question, generated_code, execution_result,
                        csv_file, "gpt-4", execution_time, recovery_attempts, clock)>>
    /\ clock' = clock + 1
    /\ UNCHANGED <<question, generated_code, execution_result, csv_file,
                   execution_time, recovery_attempts, recVars, sessVars, sumVars, inspVars, repVars>>

CalcNext == Calculate

SpecCalc == CalcInit /\ [][CalcNext]_vars

(***************************************************************************)
(* SpecRecovery: one call of analyze_error_recovery on any input            *)
(***************************************************************************)
RecInit ==
    /\ rec_result \in {OkResult, ErrorResult(ErrNameError), ErrorResult(ErrSyntax),
                       ErrorResult("")}
    /\ rec_attempts \in AttemptLists(MaxAttempts)
    /\ rec_metrics = <<>>
    /\ clock = 0
    /\ NoCalcVars
    /\ NoSessVars
    /\ NoSumVars
    /\ NoInspVars
    /\ NoRepVars

Analyze ==
    /\ rec_metrics = <<>>
    /\ rec_metrics' = <<analyze_error_recovery(rec_result, rec_attempts)>>
    /\ UNCHANGED <<rec_result, rec_attempts, calcVars, sessVars, sumVars, inspVars, repVars, clock>>

RecNext == Analyze

SpecRecovery == RecInit /\ [][RecNext]_vars

(***************************************************************************)
(* SpecInspect: one run of the static inspector on any code string         *)
(***************************************************************************)
InspectInit ==
    /\ insp_code \in SUBSET AllLines
    /\ insp_report = <<>>
    /\ clock = 0
    /\ NoCalcVars
    /\ NoRecVars
    /\ NoSessVars
    /\ NoSumVars
    /\ NoRepVars

\* the two inspector calls of calculate_evaluation_metrics
Inspect ==
    /\ insp_report = <<>>
    /\ insp_report' = <<[code_quality |-> check_code_quality(insp_code),
                         safety |-> check_code_safety(insp_code)]>>
    /\ UNCHANGED <<insp_code, calcVars, recVars, sessVars, sumVars, repVars, clock>>

InspectNext == Inspect

SpecInspect == InspectInit /\ [][InspectNext]_vars

(***************************************************************************)
(* SpecRepeat: calculate_evaluation_metrics called twice on the same       *)
(* inputs, with calls on other inputs in between                           *)
(***************************************************************************)
RepeatInit ==
    /\ question \in Questions
    /\ generated_code \in {c \in SUBSET Lines : Cardinality(c) <= 1}
    /\ execution_result \in {OkResult, ErrorResult(ErrNameError)}
    /\ csv_file \in {"data.csv", "missing.csv"}
    /\ execution_time \in {<<>>, <<500>>}
    /\ recovery_attempts \in {<<>>, <<Attempt(1, FALSE, ErrNameError)>>}
    /\ metrics = <<>>
    /\ clock = 0
    /\ NoRecVars
    /\ NoSessVars
    /\ NoSumVars
    /\ NoInspVars
    /\ NoRepVars

FirstCall ==
    /\ metrics = <<>>
    /\ metrics' = <<calculate_evaluation_metrics(question, generated_code, execution_result,
                        csv_file, "gpt-4", execution_time, recovery_attempts, clock)>>
    /\ clock' = clock + 1
    /\ UNCHANGED <<question, generated_code, execution_result, csv_file,
                   execution_time, recovery_attempts, recVars, sessVars, sumVars, inspVars,
                   repVars>>

\* a call for another turn of the session, between the two
OtherCall ==
    /\ metrics # <<>>
    /\ metrics_again = <<>>
    /\ other_calls = <<>>
    /\ \E q \in {{"q_avg"}, Phrases} :
          other_calls' = <<calculate_evaluation_metrics(q, {"c_group"}, OkResult,
                              "data.csv", "gpt-4", <<50>>, <<>>, clock)>>
    /\ clock' = clock + 1
    /\ UNCHANGED <<calcVars, metrics_again, recVars, sessVars, sumVars, inspVars>>

\* the second call, answered from what the latest call left behind
SecondCall_cached ==
    /\ metrics # <<>>
    /\ metrics_again = <<>>
    /\ metrics_again' =
          <<[calculate_evaluation_metrics(question, generated_code, execution_result,
                 csv_file, "gpt-4", execution_time, recovery_attempts, clock)
             EXCEPT !.prompt_understanding =
                 IF other_calls # <<>> THEN other_calls[1].prompt_understanding ELSE @]>>
    /\ clock' = clock + 1
    /\ UNCHANGED <<calcVars, other_calls, recVars, sessVars, sumVars, inspVars>>

SecondCall ==
    /\ metrics # <<>>
    /\ metrics_again = <<>>
    /\ metrics_again' = <<calculate_evaluation_metrics(question, generated_code,
                              execution_result, csv_file, "gpt-4", execution_time,
                              recovery_attempts, clock)>>
    /\ clock' = clock + 1
    /\ UNCHANGED <<calcVars, other_calls, recVars, sessVars, sumVars, inspVars>>

RepeatNext == FirstCall \/ OtherCall \/ SecondCall

SpecRepeat == RepeatInit /\ [][RepeatNext]_vars

(***************************************************************************)
(* Claims about calculate_evaluation_metrics (SpecCalc)                    *)
(***************************************************************************)
\* the record the call returned
M == metrics[1]

\* ast.parse accepts the code
Parses(code) == \A l \in code : LineParse(l) = "ok"

InUnitInterval(x) == 0 <= x /\ x <= Unit

\* C1: every score of the returned record (correctness, quality, performance,
\* understanding, coverage, recovery and overall) lies in [0, 1].
C1_ScoresInUnitInterval ==
    metrics # <<>> =>
        /\ InUnitInterval(M.code_correctness.correctness_score)
        /\ InUnitInterval(M.code_quality.quality_score)
        /\ InUnitInterval(M.performance.performance_score)
        /\ InUnitInterval(M.prompt_understanding.understanding_score)
        /\ InUnitInterval(M.requirement_coverage.coverage_score)
        /\ InUnitInterval(M.error_recovery.recovery_score)
        /\ InUnitInterval(M.overall_score)

\* C2: the three components of the understanding score stay within their
\* weights (column extraction <= 0.4, NL parsing <= 0.3, statistics <= 0.3),
\* and the understanding score is their sum and at most 1.
C2_ComponentsWithinWeights ==
    metrics # <<>> =>
        LET u == M.prompt_understanding
        IN  /\ u.details.column_extraction_score <= Frac(4, 10)
            /\ u.details.nl_parsing_score <= Frac(3, 10)
            /\ u.details.statistical_understanding_score <= Frac(3, 10)
            /\ u.understanding_score = u.details.column_extraction_score
                                       + u.details.nl_parsing_score
                                       + u.details.statistical_understanding_score
            /\ u.understanding_score <= Unit

\* C3: the overall score of a record is 0.25 correctness + 0.20 quality
\* + 0.15 performance + 0.15 understanding + 0.15 coverage + 0.10 recovery of
\* the sub-scores stored in that same record, and the weights sum to 1.
C3_OverallIsWeightedSum ==
    /\ 25 + 20 + 15 + 15 + 15 + 10 = 100
    /\ metrics # <<>> =>
        100 * M.overall_score =
              25 * M.code_correctness.correctness_score
            + 20 * M.code_quality.quality_score
            + 15 * M.performance.performance_score
            + 15 * M.prompt_understanding.understanding_score
            + 15 * M.requirement_coverage.coverage_score
            + 10 * M.error_recovery.recovery_score

\* a record whose quality and performance scores differ, so that their weights
\* cannot be exchanged unnoticed
C3_Witness ==
    /\ metrics # <<>>
    /\ M.code_quality.quality_score # M.performance.performance_score
    /\ M.code_correctness.correctness_score = Frac(5, 10)
    /\ M.error_recovery.recovery_score \notin {0, Unit}

\* C4: correctness is 0.5 for code that parses plus 0.5 for an outcome that
\* is no error, so one of 0, 0.5, 1; code that does not parse scores at most
\* 0.5 and has at least one syntax error listed; the syntax check returns a
\* result for every input.
C4_CorrectnessScore ==
    metrics # <<>> =>
        LET c == M.code_correctness
        IN  /\ c.correctness_score =
                    (IF Parses(generated_code) THEN Frac(5, 10) ELSE 0)
                  + (IF execution_result.type # "error" THEN Frac(5, 10) ELSE 0)
            /\ c.correctness_score \in {0, Frac(5, 10), Unit}
            /\ c.syntax_valid = Parses(generated_code)
            /\ ~Parses(generated_code) =>
                    /\ c.correctness_score <= Frac(5, 10)
                    /\ Len(c.syntax_errors) >= 1

\* code that does not parse, scored with an outcome that is no error
C4_Witness ==
    /\ metrics # <<>>
    /\ ~Parses(generated_code)
    /\ execution_result.type # "error"
    /\ M.code_correctness.correctness_score = Frac(5, 10)
    /\ Len(M.code_correctness.syntax_errors) = 1

(***************************************************************************)
(* Claims about analyze_error_recovery (SpecRecovery)                      *)
(***************************************************************************)
\* the record the call returned
R == rec_metrics[1]

Successes(attempts) == Cardinality({i \in DOMAIN attempts : attempts[i].success})

\* C5: on an error outcome with n attempts, recovery_score is
\* 0.5 success_rate + 0.3 error_fix_quality + 0.2 min(n/3, 1) when n > 0 and
\* 0 when n = 0, with success_rate = successes / n; one attempt that succeeds
\* gives success_rate 1 and recovery_score 0.5 + 0.3 + 0.2/3.
C5_RecoveryScore ==
    (rec_metrics # <<>> /\ rec_result.type = "error") =>
        LET n == Len(rec_attempts)
        IN  /\ n = 0 => R.recovery_score = 0 /\ R.recovery_success_rate = 0
            /\ n > 0 =>
                /\ n * R.recovery_success_rate = Successes(rec_attempts) * Unit
                /\ 30 * R.recovery_score =
                      15 * R.recovery_success_rate + 9 * R.error_fix_quality
                    + 2 * Min2(n, 3) * Unit
            /\ (n = 1 /\ rec_attempts[1].success) =>
                /\ R.recovery_success_rate = Unit
                /\ 30 * R.recovery_score = 15 * Unit + 9 * Unit + 2 * Unit

\* an error outcome with two attempts of which only the second succeeded
C5_Witness ==
    /\ rec_metrics # <<>>
    /\ rec_result.type = "error"
    /\ Len(rec_attempts) = 2
    /\ ~rec_attempts[1].success
    /\ rec_attempts[2].success
    /\ R.recovery_success_rate = Frac(1, 2)

\* C6: for an outcome that is no error the result has recovery_success,
\* success rate 1, fix quality 1 and recovery score 1, whatever the attempts.
C6_NoErrorIsPerfect ==
    (rec_metrics # <<>> /\ rec_result.type # "error") =>
        /\ R.recovery_success = TRUE
        /\ R.recovery_success_rate = Unit
        /\ R.error_fix_quality = Unit
        /\ R.recovery_score = Unit

\* an outcome that is no error, analysed with attempts that all failed
C6_Witness ==
    /\ rec_metrics # <<>>
    /\ rec_result.type # "error"
    /\ Len(rec_attempts) >= 2
    /\ \A i \in DOMAIN rec_attempts : ~rec_attempts[i].success

\* C8: on an error outcome each attempt's fix quality is 1 if it succeeded,
\* else 0.5 if its error classifies differently from the original error and
\* 0.1 if it classifies the same; error_fix_quality is the mean over the
\* attempts (0 without attempts); recovery_details lists the attempts in order,
\* numbered 1..n.
C8_FixQuality ==
    (rec_metrics # <<>> /\ rec_result.type = "error") =>
        LET n == Len(rec_attempts)
            d == R.recovery_details
        IN  /\ Len(d) = n
            /\ \A i \in 1..n :
                /\ d[i].attempt_number = i
                /\ d[i].success = rec_attempts[i].success
                /\ d[i].error = rec_attempts[i].error
                /\ d[i].fix_quality =
                      IF rec_attempts[i].success THEN Unit
                      ELSE IF _classify_error(rec_attempts[i].error)
                              # _classify_error(rec_result.data)
                           THEN Frac(5, 10) ELSE Frac(1, 10)
            /\ n = 0 => R.error_fix_quality = 0
            /\ n > 0 => n * R.error_fix_quality = SumSeq([i \in 1..n |-> d[i].fix_quality])

\* an error outcome with one attempt of each kind: a failure of the same
\* class, a failure of another class, a success
C8_Witness ==
    /\ rec_metrics # <<>>
    /\ rec_result.type = "error"
    /\ Len(rec_attempts) = 3
    /\ R.recovery_details[1].fix_quality = Frac(1, 10)
    /\ R.recovery_details[2].fix_quality = Frac(5, 10)
    /\ R.recovery_details[3].fix_quality = Unit

(***************************************************************************)
(* Claims on the code inspector, under SpecCalc                            *)
(***************************************************************************)
\* the highest class of the ladder that has a data operation in the code
BaseClass(code) ==
    IF \E p \in pandas_ops["O(n^2)"] : CodeSearch(p, code) THEN "O(n^2)"
    ELSE IF \E p \in pandas_ops["O(n log n)"] : CodeSearch(p, code) THEN "O(n log n)"
    ELSE IF \E p \in pandas_ops["O(n)"] : CodeSearch(p, code) THEN "O(n)"
    ELSE "O(1)"

\* the loop indicators of the code, every occurrence counted
LoopCount(code) ==
    SumFn([x \in code \X Range(loop_patterns) |-> FindallCount(x[2], {x[1]})])

\* C15: the time complexity notation is the base class escalated by the loop
\* count L: L = 0 keeps the base; L = 1 turns O(1) into O(n) and O(n) into
\* O(n^2) and keeps a higher base; L >= 2 turns O(1) and O(n) into O(n^2) and
\* a base above O(n) into O(n^3).
C15_TimeComplexityEscalation ==
    metrics # <<>> =>
        LET base == BaseClass(generated_code)
            L == LoopCount(generated_code)
            notation == M.performance.time_complexity.notation
        IN  /\ L = 0 => notation = base
            /\ (L = 1 /\ base = "O(1)") => notation = "O(n)"
            /\ (L = 1 /\ base = "O(n)") => notation = "O(n^2)"
            /\ (L = 1 /\ base \in {"O(n log n)", "O(n^2)"}) => notation = base
            /\ (L >= 2 /\ base \in {"O(1)", "O(n)"}) => notation = "O(n^2)"
            /\ (L >= 2 /\ base \in {"O(n log n)", "O(n^2)"}) => notation = "O(n^3)"

\* two loop indicators and a merge
C15_Witness ==
    /\ metrics # <<>>
    /\ LoopCount(generated_code) = 2
    /\ CodeSearch("\\.merge\\(", generated_code)
    /\ M.performance.time_complexity.notation = "O(n^3)"

\* the control keywords of the code, every occurrence counted
KeywordOccurrences(code) ==
    SumFn([x \in code \X Range(complexity_keywords) |-> FindallCount(x[2], {x[1]})])

\* C20: complexity_score is the total number of occurrences of the control
\* keywords if, elif, else, for, while, try, except, with in the code: a
\* keyword that appears k times adds k.
C20_ComplexityCountsOccurrences ==
    metrics # <<>> =>
        M.code_quality.complexity_score = KeywordOccurrences(generated_code)

(***************************************************************************)
(* Claims on the requirement coverage analyzer, under SpecCalc             *)
(***************************************************************************)
Cov == M.requirement_coverage
Details == Cov.details
Notes == Range(Details.missing_requirements)

\* the filter keywords of the question, every occurrence counted
FilterKeywordOccurrences(q) ==
    SumFn([x \in q \X filter_keywords |->
              IF x[2] \in DOMAIN PhraseCount(x[1]) THEN PhraseCount(x[1])[x[2]] ELSE 0])

\* the filter constructs of the code
FilterOps(code) ==
    FindallCount("df\\[.*\\]|\\.query\\(|\\.loc\\[.*\\]|\\.iloc\\[.*\\]", code)

SortWords ==
    {"sort", "order", "ascending", "descending", "top", "bottom", "largest", "smallest"}
JoinWords == {"join", "merge", "combine", "match"}
MentionsSort(q) == \E k \in SortWords : QuestionSearch(k, q)
MentionsJoin(q) == \E k \in JoinWords : QuestionSearch(k, q)
SortInCode(code) ==
    CodeSearch("\\.sort_values\\(|\\.sort_index\\(|\\.nlargest\\(|\\.nsmallest\\(", code)
JoinInCode(code) == CodeSearch("\\.merge\\(|\\.join\\(|\\.concat\\(", code)

\* the score is the sum of the four credits weighted 0.3, 0.3, 0.2 and 0.2
WeightedCredits ==
    Cov.coverage_score =
        Times(Details.filter_conditions_coverage, 3, 10)
        + Times(Details.groupby_columns_coverage, 3, 10)
        + Times(Details.sorting_coverage, 2, 10)
        + Times(Details.join_conditions_coverage, 2, 10)

\* C16: a question with at most one filter keyword, no 'by A, B' list, no
\* sort keyword and no join keyword gets coverage_score 1.0, all four
\* coverage details 1.0 and an empty missing_requirements list, whatever the
\* code contains.
C16_FullCreditWhenNotMentioned ==
    (/\ metrics # <<>>
     /\ FilterKeywordOccurrences(question) <= 1
     /\ groupby_columns_mentioned(question) = <<>>
     /\ ~MentionsSort(question)
     /\ ~MentionsJoin(question)) =>
        /\ Cov.coverage_score = Unit
        /\ Details.filter_conditions_coverage = Unit
        /\ Details.groupby_columns_coverage = Unit
        /\ Details.sorting_coverage = Unit
        /\ Details.join_conditions_coverage = Unit
        /\ Details.missing_requirements = <<>>

\* a question with one filter keyword and nothing else, and a code that has
\* none of the constructs
C16_Witness ==
    /\ metrics # <<>>
    /\ FilterKeywordOccurrences(question) = 1
    /\ groupby_columns_mentioned(question) = <<>>
    /\ ~MentionsSort(question)
    /\ ~MentionsJoin(question)
    /\ generated_code # {}
    /\ FilterOps(generated_code) = 0
    /\ ~SortInCode(generated_code)
    /\ ~JoinInCode(generated_code)
    /\ Cov.coverage_score = Unit

\* C17: when the question has more than one filter-keyword occurrence, the
\* filter credit is min(filter_ops / filter_count, 1.0) with filter_count the
\* number of filter-keyword occurrences of the question; the note is recorded
\* exactly when filter_ops < filter_count; the credit weighs 0.3.
C17_FilterCredit ==
    (metrics # <<>> /\ FilterKeywordOccurrences(question) > 1) =>
        LET filter_count == FilterKeywordOccurrences(question)
            filter_ops == FilterOps(generated_code)
        IN  /\ Details.filter_conditions_coverage =
                    Min2(Frac(filter_ops, filter_count), Unit)
            /\ ("Missing filter condition(s)" \in Notes) <=> (filter_ops < filter_count)
            /\ WeightedCredits

\* C18: when the question lists grouping columns, the groupby credit is the
\* share of the listed columns found in the code's groupby call, in [0, 1], and
\* 0 without a groupby call; a note is recorded whenever the credit is below
\* 1.0; the credit weighs 0.3.
C18_GroupbyCredit ==
    (metrics # <<>> /\ groupby_columns_mentioned(question) # <<>>) =>
        LET mentioned == groupby_columns_mentioned(question)
            in_code == groupby_cols_in_code(generated_code)
            matched ==
                Cardinality({i \in DOMAIN mentioned :
                                \E j \in DOMAIN in_code : LowerIn(mentioned[i], in_code[j])})
            credit == Details.groupby_columns_coverage
            has_call == CodeSearch("\\.groupby\\(\\[?([^\\]]+)\\]?\\)", generated_code)
        IN  /\ 0 <= credit /\ credit <= Unit
            /\ has_call => credit * Len(mentioned) = matched * Unit
            /\ ~has_call => credit = 0
            /\ (credit < Unit) <=>
                    \/ "Missing groupby column(s)" \in Notes
                    \/ "Groupby operation missing" \in Notes
            /\ ~("Missing groupby column(s)" \in Notes /\ "Groupby operation missing" \in Notes)
            /\ WeightedCredits

\* a groupby call that has one of the two listed columns
C18_Witness ==
    /\ metrics # <<>>
    /\ Len(groupby_columns_mentioned(question)) = 2
    /\ Details.groupby_columns_coverage = Frac(1, 2)
    /\ "Missing groupby column(s)" \in Notes

\* C19: the sorting and the join sub-check are binary: with a sort keyword in
\* the question the sorting credit is 1.0 if the code has a sort construct and
\* 0.0 otherwise, with a join keyword the join credit is 1.0 if the code has a
\* merge/join/concat construct and 0.0 otherwise; a credit of 0.0 adds a note;
\* each credit weighs 0.2.
C19_SortAndJoinBinary ==
    metrics # <<>> =>
        /\ MentionsSort(question) =>
                /\ Details.sorting_coverage =
                        IF SortInCode(generated_code) THEN Unit ELSE 0
                /\ ("Sorting operation missing" \in Notes)
                        <=> (Details.sorting_coverage = 0)
        /\ MentionsJoin(question) =>
                /\ Details.join_conditions_coverage =
                        IF JoinInCode(generated_code) THEN Unit ELSE 0
                /\ ("Join/merge operation missing" \in Notes)
                        <=> (Details.join_conditions_coverage = 0)
        /\ WeightedCredits

\* both are mentioned; the code sorts and does not join
C19_Witness ==
    /\ metrics # <<>>
    /\ MentionsSort(question)
    /\ MentionsJoin(question)
    /\ Details.sorting_coverage = Unit
    /\ Details.join_conditions_coverage = 0
    /\ "Join/merge operation missing" \in Notes
    /\ "Sorting operation missing" \notin Notes

(***************************************************************************)
(* Claims on the intent analyzer, under SpecCalc                           *)
(***************************************************************************)
PU == M.prompt_understanding.details

\* the dataset columns the question mentions, by name or with blanks for
\* underscores; none when the dataset cannot be read
MentionedColumns ==
    IF csv_file = "data.csv"
    THEN {c \in {Lower(DatasetColumns[i]) : i \in DOMAIN DatasetColumns} :
            QuestionSearch(c, question) \/ QuestionSearch(UnderscoreToSpace(c), question)}
    ELSE {}

\* the columns the code references
ReferencedColumns == (UNION {LineColumnRefs(l) : l \in generated_code}) \ pandas_methods

\* C23: when the question mentions at least one dataset column the column
\* score is matched / mentioned * 0.4, matched being the mentioned columns the
\* code references; when it mentions none (also when the dataset file is
\* absent or unreadable) the score is 0.2 if the code references any column
\* and 0.1 otherwise.
C23_ColumnExtractionScore ==
    metrics # <<>> =>
        LET n == Cardinality(MentionedColumns)
            matched == Cardinality(MentionedColumns \cap ReferencedColumns)
        IN  /\ n > 0 => PU.column_extraction_score = Times(Frac(matched, n), 4, 10)
            /\ (n = 0 /\ ReferencedColumns # {}) => PU.column_extraction_score = Frac(2, 10)
            /\ (n = 0 /\ ReferencedColumns = {}) => PU.column_extraction_score = Frac(1, 10)

\* a dataset that cannot be read and a code that references a column
C23_Witness ==
    /\ metrics # <<>>
    /\ csv_file = "missing.csv"
    /\ QuestionSearch("sales", question)
    /\ "sales" \in ReferencedColumns
    /\ PU.column_extraction_score = Frac(2, 10)

NlQuestion(name) == \E p \in nl_patterns(name).question_patterns : QuestionSearch(p, question)
NlCode(name) == \E p \in nl_patterns(name).code_patterns : CodeSearch(p, generated_code)
StatQuestion(name) == \E p \in stat_patterns(name).question : QuestionSearch(p, question)
StatCode(name) == \E p \in stat_patterns(name).code : CodeSearch(p, generated_code)

\* C24: each of the five NL categories earns 0.06 when question and code both
\* match, 0.3 * 0.06 when only the question matches and 0 otherwise; each of
\* the six statistical operations earns 0.1 when both match, 0.2 * 0.1 when
\* only the question matches and 0 otherwise; statistical_operations lists
\* exactly the operations whose question triggers matched.
C24_TableDrivenScoring ==
    metrics # <<>> =>
        /\ PU.nl_parsing_score =
                SumFn([name \in Range(nl_pattern_names) |->
                        IF NlQuestion(name) /\ NlCode(name) THEN Frac(6, 100)
                        ELSE IF NlQuestion(name) THEN Times(Frac(6, 100), 3, 10)
                        ELSE 0])
        /\ PU.statistical_understanding_score =
                SumFn([name \in Range(stat_pattern_names) |->
                        IF StatQuestion(name) /\ StatCode(name) THEN Frac(1, 10)
                        ELSE IF StatQuestion(name) THEN Times(Frac(1, 10), 2, 10)
                        ELSE 0])
        /\ Range(PU.statistical_operations) =
                {name \in Range(stat_pattern_names) : StatQuestion(name)}
        /\ Len(PU.statistical_operations) = Cardinality(Range(PU.statistical_operations))
        /\ Cardinality(Range(nl_pattern_names)) = 5
        /\ Cardinality(Range(stat_pattern_names)) = 6

\* every case at once: categories and operations matched in both, in the
\* question only, and not at all
C24_Witness ==
    /\ metrics # <<>>
    /\ \E a, b, c \in Range(nl_pattern_names) :
            /\ NlQuestion(a) /\ NlCode(a)
            /\ NlQuestion(b) /\ ~NlCode(b)
            /\ ~NlQuestion(c)
    /\ \E a, b, c \in Range(stat_pattern_names) :
            /\ StatQuestion(a) /\ StatCode(a)
            /\ StatQuestion(b) /\ ~StatCode(b)
            /\ ~StatQuestion(c)

(***************************************************************************)
(* Claims on the static inspector, under SpecInspect                       *)
(***************************************************************************)
Q == insp_report[1].code_quality
S == insp_report[1].safety

\* the lines of code.split('\n'): one empty line for the empty string
SplitLines(code) == IF code = {} THEN 1 ELSE Cardinality(code)
LongLines(code) == Cardinality({l \in code : LineLen(l) > 100})
NonBlankLines(code) == Cardinality({l \in code : LineLen(l) > 0})
HasComment(code) == CodeSearch("#.*", code)

\* the three deductions, as conditions on the code and on complexity_score
ManyLongLines == 5 * LongLines(insp_code) > SplitLines(insp_code)
LongUncommented == ~HasComment(insp_code) /\ NonBlankLines(insp_code) > 10
TooComplex == Q.complexity_score > 5

\* C21: readability_score starts at 10 and loses 2 if more than 20% of the
\* lines are longer than 100 characters, 1 if the code has no comment and more
\* than 10 non-blank lines, and 1 if complexity_score > 5; each deduction is
\* made whether or not the others are, and the result is never below 0.
C21_ReadabilityScore ==
    insp_report # <<>> =>
        /\ Q.readability_score =
                10 - (IF ManyLongLines THEN 2 ELSE 0)
                   - (IF LongUncommented THEN 1 ELSE 0)
                   - (IF TooComplex THEN 1 ELSE 0)
        /\ Q.readability_score >= 0

\* a code on which all three deductions are made
C21_Witness ==
    /\ insp_report # <<>>
    /\ ManyLongLines
    /\ LongUncommented
    /\ TooComplex
    /\ Q.readability_score = 6

\* the patterns of the table that match the code, with their category
MatchedPatterns(code) ==
    {cp \in UNION {{<<c, p>> : p \in dangerous_patterns[c]} : c \in DOMAIN dangerous_patterns} :
        CodeSearch(cp[2], code)}

\* C22: is_safe holds exactly when the issue list is empty; every matched
\* pattern of the table is one issue; safety_score is 1.0 without issues and
\* max(0, 1.0 - 0.2 * issueCount) otherwise, hence 0 from five issues on;
\* issues of category system or network have severity high, all others medium.
C22_SafetyScore ==
    insp_report # <<>> =>
        LET n == Cardinality(MatchedPatterns(insp_code))
        IN  /\ S.is_safe <=> (S.safety_issues = {})
            /\ {<<i.category, i.pattern>> : i \in S.safety_issues} = MatchedPatterns(insp_code)
            /\ Cardinality(S.safety_issues) = n
            /\ n = 0 => S.safety_score = Unit
            /\ (0 < n /\ n < 5) => S.safety_score = Unit - n * Frac(2, 10)
            /\ n >= 5 => S.safety_score = 0
            /\ \A i \in S.safety_issues :
                    i.severity = IF i.category \in {"system", "network"} THEN "high" ELSE "medium"

\* a code with six issues of both severities
C22_Witness ==
    /\ insp_report # <<>>
    /\ Cardinality(S.safety_issues) = 6
    /\ ~S.is_safe
    /\ S.safety_score = 0
    /\ {i.severity : i \in S.safety_issues} = {"high", "medium"}

(***************************************************************************)
(* Claims about repeated calls, checked under SpecRepeat                   *)
(***************************************************************************)
WithoutTimestamp(r) == [r EXCEPT !.timestamp = 0]

ExampleQuestion == {"q_avg", "q_by"}
\* result = df.groupby('Region')['Sales'].mean().sort_values(ascending=False)
ExampleCode == {"c_group"}

ExampleScored ==
    /\ metrics # <<>>
    /\ question = ExampleQuestion
    /\ generated_code = ExampleCode
    /\ execution_result.type # "error"

\* C26: for the example question and code with a non-error outcome, mean and
\* groupby are among the detected statistical operations and both are credited
\* at the full weight 0.1, sorting_coverage is 1.0 and correctness_score is 1.0.
C26_WorkedExample ==
    ExampleScored =>
        /\ {"mean", "groupby"} \subseteq Range(PU.statistical_operations)
        /\ StatCode("mean") /\ StatCode("groupby")
        /\ PU.statistical_understanding_score = 2 * Frac(1, 10)
        /\ M.requirement_coverage.details.sorting_coverage = Unit
        /\ M.code_correctness.correctness_score = Unit

\* the example scored: nothing but mean and groupby detected, 0.2 earned
C26_Witness ==
    /\ ExampleScored
    /\ PU.statistical_operations = <<"mean", "groupby">>
    /\ PU.statistical_understanding_score = Frac(2, 10)
    /\ M.requirement_coverage.details.sorting_coverage = Unit
    /\ M.code_correctness.correctness_score = Unit

(***************************************************************************)
(* Spec: one chat session served by send_message                           *)
(***************************************************************************)
\* requests the session receives
MaxTurns == 2
\* I/O failures of the session directory
MaxFaults == 1

SessionId == "s1"
SessionCsv == "data.csv"
SessionQuestions == {{"q_avg", "q_by"}}
\* what the language model may answer
SessionCodes == {{"c_import", "c_group"}}
GenerationError == "Error generating code: timeout"
ResponseError == "keys must be str, int, float, bool or None, not tuple"

\* execute_code_safely: every outcome the code may have on the dataset, with
\* the measured time in milliseconds where the outcome carries one
Outcomes(code) ==
    IF \E l \in code : LineParse(l) # "ok"
    THEN {[result |-> ErrorResult(ErrSyntax), time |-> <<>>]}
    ELSE {[result |-> OkResult, time |-> <<50>>],
          [result |-> ErrorResult(ErrNameError), time |-> <<>>]}

Set(t, fields) == frame' = [frame EXCEPT ![t] = fields @@ frame[t]]
Goto(t, label) == pc' = [pc EXCEPT ![t] = label]

\* the request returns: its local variables are gone
Return(t) ==
    /\ Goto(t, "idle")
    /\ frame' = [frame EXCEPT ![t] = NoFrame]
    /\ first_result' = [first_result EXCEPT ![t] = <<>>]
    /\ seen' = [seen EXCEPT ![t] = NoSeen]

\* upload_file: a dataset is attached to the session
Upload ==
    /\ chat_session.csv_file = None
    /\ chat_session' = [chat_session EXCEPT !.csv_file = SessionCsv]
    /\ UNCHANGED <<pc, frame, response, metrics_file, summary_file, turns, faults,
                   first_result, seen, saved, calcVars, recVars, sumVars, inspVars, repVars, clock>>

\* send_message up to the try block: without a dataset the request is refused
Start(t) ==
    /\ pc[t] = "idle"
    /\ turns < MaxTurns
    /\ turns' = turns + 1
    /\ \E q \in SessionQuestions :
        IF chat_session.csv_file = None
        THEN /\ response' = [response EXCEPT ![t] = <<[status |-> 400, success |-> FALSE]>>]
             /\ UNCHANGED <<chat_session, pc, frame, first_result>>
        ELSE /\ chat_session' =
                    [chat_session EXCEPT
                        !.messages = Append(@, [type |-> "user", content |-> q])]
             /\ Set(t, [question |-> q] @@ NoFrame)
             /\ first_result' = [first_result EXCEPT ![t] = <<>>]
             /\ Goto(t, "generate")
             /\ UNCHANGED response
    /\ UNCHANGED <<metrics_file, summary_file, faults, seen, saved, calcVars, recVars, sumVars, inspVars, repVars, clock>>

\* generate_pandas_code returns code or raises
Generate(t) ==
    /\ pc[t] = "generate"
    /\ \/ \E code \in SessionCodes :
            /\ Set(t, [generated_code |-> code])
            /\ Goto(t, "execute")
       \/ /\ Set(t, [exception |-> GenerationError])
          /\ Goto(t, "except")
    /\ UNCHANGED <<chat_session, response, metrics_file, summary_file, turns, faults,
                   first_result, seen, saved, calcVars, recVars, sumVars, inspVars, repVars, clock>>

\* the first execution of the generated code
Execute(t) ==
    /\ pc[t] = "execute"
    /\ \E o \in Outcomes(frame[t].generated_code) :
        /\ Set(t, [execution_result |-> o.result, execution_time |-> o.time])
        /\ first_result' = [first_result EXCEPT ![t] = <<o.result>>]
        /\ Goto(t, IF o.result.type = "error" THEN "repair" ELSE "metrics")
    /\ UNCHANGED <<chat_session, response, metrics_file, summary_file, turns, faults,
                   seen, saved, calcVars, recVars, sumVars, inspVars, repVars, clock>>

max_recovery_attempts == 2

\* one pass of a repair loop that goes on after an attempt succeeded
Repair_exhaustive(t) ==
    LET attempt_num == Len(frame[t].recovery_attempts)
        next == IF attempt_num + 1 < max_recovery_attempts THEN "repair" ELSE "metrics"
    IN  /\ pc[t] = "repair"
        /\ \/ \E fixed_code \in SessionCodes : \E o \in Outcomes(fixed_code) :
                LET recovery_attempt ==
                        [attempt_number |-> attempt_num + 1,
                         code |-> <<fixed_code>>,
                         error |-> IF o.result.type = "error" THEN o.result.data ELSE None,
                         success |-> o.result.type # "error",
                         execution_time |-> o.time]
                    attempts == Append(frame[t].recovery_attempts, recovery_attempt)
                IN  IF recovery_attempt.success
                    THEN /\ Set(t, [recovery_attempts |-> attempts,
                                    generated_code |-> fixed_code,
                                    execution_result |-> o.result,
                                    execution_time |-> o.time])
                         /\ Goto(t, next)
                    ELSE /\ Set(t, [recovery_attempts |-> attempts])
                         /\ Goto(t, next)
           \/ /\ Set(t, [recovery_attempts |->
                            Append(frame[t].recovery_attempts,
                                   Attempt(attempt_num + 1, FALSE,
                                           "Recovery attempt failed: Error generating code: timeout"))])
              /\ Goto(t, next)
        /\ UNCHANGED <<chat_session, response, metrics_file, summary_file, turns, faults,
                       first_result, seen, saved, calcVars, recVars, sumVars, inspVars, repVars, clock>>

\* one pass of the repair loop
Repair(t) ==
    LET attempt_num == Len(frame[t].recovery_attempts)
        next == IF attempt_num + 1 < max_recovery_attempts THEN "repair" ELSE "metrics"
    IN  /\ pc[t] = "repair"
        /\ \/ \E fixed_code \in SessionCodes : \E o \in Outcomes(fixed_code) :
                LET recovery_attempt ==
                        [attempt_number |-> attempt_num + 1,
                         code |-> <<fixed_code>>,
                         error |-> IF o.result.type = "error" THEN o.result.data ELSE None,
                         success |-> o.result.type # "error",
                         execution_time |-> o.time]
                    attempts == Append(frame[t].recovery_attempts, recovery_attempt)
                IN  IF recovery_attempt.success
                    THEN /\ Set(t, [recovery_attempts |-> attempts,
                                    generated_code |-> fixed_code,
                                    execution_result |-> o.result,
                                    execution_time |-> o.time])
                         /\ Goto(t, "metrics")
                    ELSE /\ Set(t, [recovery_attempts |-> attempts])
                         /\ Goto(t, next)
           \/ /\ Set(t, [recovery_attempts |->
                            Append(frame[t].recovery_attempts,
                                   Attempt(attempt_num + 1, FALSE,
                                           "Recovery attempt failed: Error generating code: timeout"))])
              /\ Goto(t, next)
        /\ UNCHANGED <<chat_session, response, metrics_file, summary_file, turns, faults,
                       first_result, seen, saved, calcVars, recVars, sumVars, inspVars, repVars, clock>>

\* the message of the outer except clause
ProcessingError(e) ==
    CASE e = GenerationError -> "Error processing request: Error generating code: timeout"
      [] e = ResponseError ->
            "Error processing request: keys must be str, int, float, bool or None, not tuple"

\* where send_message continues after the metrics block
AfterMetrics_abort(t) == IF frame[t].failed THEN "error_reply" ELSE "except"

AfterMetrics(t) == IF frame[t].failed THEN "error_reply" ELSE "history"

\* the metrics of the turn, computed on the normal path; an exception of the
\* computation is caught by the handler around the metrics block
CalculateMetrics(t) ==
    /\ pc[t] = "metrics"
    /\ \/ /\ Set(t, [metrics |->
                    <<calculate_evaluation_metrics(
                        frame[t].question, frame[t].generated_code,
                        frame[t].execution_result, chat_session.csv_file,
                        frame[t].selected_model, frame[t].execution_time,
                        frame[t].recovery_attempts, clock)>>])
          /\ clock' = clock + 1
          /\ Goto(t, "save")
          /\ UNCHANGED faults
       \/ /\ faults < MaxFaults
          /\ faults' = faults + 1
          /\ Goto(t, AfterMetrics(t))
          /\ UNCHANGED <<frame, clock>>
    /\ UNCHANGED <<chat_session, response, metrics_file, summary_file, turns,
                   first_result, seen, saved, calcVars, recVars, sumVars, inspVars, repVars>>

\* the outer except clause: the outcome becomes the error, and the metrics
\* are computed from it
HandleException(t) ==
    LET result == ErrorResult(ProcessingError(frame[t].exception))
    IN  /\ pc[t] = "except"
        /\ \/ /\ Set(t, [execution_result |-> result,
                         failed |-> TRUE,
                         metrics |->
                            <<calculate_evaluation_metrics(
                                frame[t].question, frame[t].generated_code, result,
                                chat_session.csv_file, frame[t].selected_model,
                                frame[t].execution_time, frame[t].recovery_attempts,
                                clock)>>])
              /\ clock' = clock + 1
              /\ Goto(t, "save")
              /\ UNCHANGED faults
           \/ /\ faults < MaxFaults
              /\ faults' = faults + 1
              /\ Set(t, [execution_result |-> result, failed |-> TRUE, metrics |-> <<>>])
              /\ Goto(t, "error_reply")
              /\ UNCHANGED clock
        /\ UNCHANGED <<chat_session, response, metrics_file, summary_file, turns,
                       first_result, seen, saved, calcVars, recVars, sumVars, inspVars, repVars>>

\* the list a save call starts from
load_existing_metrics_empty(file, read_ok) == <<>>

load_existing_metrics(file, read_ok) ==
    IF file.state = "ok" /\ read_ok THEN file.content ELSE <<>>

\* save_evaluation_metrics, first part: the directory is made, the existing
\* list is loaded and the new record appended to it
LoadMetrics(t) ==
    /\ pc[t] = "save"
    /\ saved' = Append(saved, frame[t].metrics[1])
    /\ \/ \E read_ok \in BOOLEAN :
            /\ ~read_ok => metrics_file.state = "ok" /\ faults < MaxFaults
            /\ faults' = IF read_ok THEN faults ELSE faults + 1
            /\ seen' = [seen EXCEPT ![t] = [file |-> metrics_file, read_ok |-> read_ok]]
            /\ Set(t, [metrics_list |->
                        Append(load_existing_metrics(metrics_file, read_ok),
                               frame[t].metrics[1])])
            /\ Goto(t, "write")
       \/ \* os.makedirs raises: the call is left through the handler of send_message
          /\ faults < MaxFaults
          /\ faults' = faults + 1
          /\ Goto(t, AfterMetrics(t))
          /\ UNCHANGED <<frame, seen>>
    /\ UNCHANGED <<chat_session, response, metrics_file, summary_file, turns,
                   first_result, calcVars, recVars, sumVars, inspVars, repVars, clock>>

\* save_evaluation_metrics, second part: metrics.json is rewritten
WriteMetrics(t) ==
    /\ pc[t] = "write"
    /\ \/ /\ metrics_file' = FileOk(frame[t].metrics_list)
          /\ UNCHANGED faults
       \/ \* open fails: the file stays as it was
          /\ faults < MaxFaults
          /\ faults' = faults + 1
          /\ UNCHANGED metrics_file
       \/ \* the dump fails on the way: the file is left cut off
          /\ faults < MaxFaults
          /\ faults' = faults + 1
          /\ metrics_file' = FileCorrupt
    /\ Goto(t, "summary")
    /\ UNCHANGED <<chat_session, frame, response, summary_file, turns,
                   first_result, seen, saved, calcVars, recVars, sumVars, inspVars, repVars, clock>>

\* save_evaluation_metrics, third part: the summary of the list in memory is
\* written
WriteSummary(t) ==
    /\ pc[t] = "summary"
    /\ \/ /\ summary_file' =
                FileOk(summarize(SessionId, frame[t].metrics_list, clock))
          /\ UNCHANGED faults
       \/ /\ faults < MaxFaults
          /\ faults' = faults + 1
          /\ UNCHANGED summary_file
    /\ Goto(t, AfterMetrics(t))
    /\ UNCHANGED <<chat_session, frame, response, metrics_file, turns,
                   first_result, seen, saved, calcVars, recVars, sumVars, inspVars, repVars, clock>>

\* the history entry, the assistant message and the response; building the
\* response may raise, which leads to the outer except clause
Respond(t) ==
    LET result == frame[t].execution_result
        history_entry == [question |-> frame[t].question,
                          code |-> frame[t].generated_code,
                          result |-> result]
        ai_message == [type |-> "assistant",
                       content |-> IF result.type = "error" THEN "error" ELSE "result"]
    IN  /\ pc[t] = "history"
        /\ chat_session' = [chat_session EXCEPT !.history = Append(@, history_entry),
                                                !.messages = Append(@, ai_message)]
        /\ \/ /\ response' = [response EXCEPT ![t] = <<[status |-> 200, success |-> TRUE]>>]
              /\ Return(t)
           \/ /\ result.type # "error"
              /\ Set(t, [exception |-> ResponseError])
              /\ Goto(t, "except")
              /\ UNCHANGED <<response, first_result, seen>>
        /\ UNCHANGED <<metrics_file, summary_file, turns, faults, saved,
                       calcVars, recVars, sumVars, inspVars, repVars, clock>>

\* the end of the outer except clause
ErrorReply(t) ==
    /\ pc[t] = "error_reply"
    /\ chat_session' =
            [chat_session EXCEPT
                !.messages = Append(@, [type |-> "assistant", content |-> "error"])]
    /\ response' = [response EXCEPT ![t] = <<[status |-> 500, success |-> FALSE]>>]
    /\ Return(t)
    /\ UNCHANGED <<metrics_file, summary_file, turns, faults, saved, calcVars, recVars, sumVars, inspVars, repVars, clock>>

Init ==
    /\ NoSessVars
    /\ NoSumVars
    /\ NoInspVars
    /\ NoRepVars
    /\ NoCalcVars
    /\ NoRecVars
    /\ clock = 0

Next ==
    \/ Upload
    \/ \E t \in Threads :
        \/ Start(t)
        \/ Generate(t)
        \/ Execute(t)
        \/ Repair(t)
        \/ CalculateMetrics(t)
        \/ HandleException(t)
        \/ LoadMetrics(t)
        \/ WriteMetrics(t)
        \/ WriteSummary(t)
        \/ Respond(t)
        \/ ErrorReply(t)

Spec == Init /\ [][Next]_vars

(***************************************************************************)
(* SpecSummary: one metrics log, summarized by save_evaluation_metrics and *)
(* by update_all_metrics_summaries                                         *)
(***************************************************************************)
\* the longest log
MaxLogLen == 2

LogQuestion == {"q_avg", "q_by"}
LogCode == {"c_import", "c_group"}

\* a record as calculate_evaluation_metrics returns it
NewRecord(result, time, attempts) ==
    calculate_evaluation_metrics(LogQuestion, LogCode, result, "data.csv", "gpt-4",
                                 time, attempts, 0)

\* a record written before the intent, coverage and recovery sub-records
\* were added
OldRecord ==
    LET m == NewRecord(OkResult, <<500>>, <<>>)
    IN  [timestamp |-> 0, model |-> "gpt-3.5-turbo", question |-> m.question,
         csv_file |-> m.csv_file, code_correctness |-> m.code_correctness,
         code_quality |-> m.code_quality, performance |-> m.performance,
         overall_score |-> m.overall_score]

\* a record of a turn whose code iterates: other complexity classes
LoopRecord ==
    calculate_evaluation_metrics(LogQuestion, {"c_loops"}, OkResult, "data.csv", "gpt-4",
                                 <<500>>, <<>>, 0)

LogRecords ==
    {NewRecord(OkResult, <<50>>, <<>>),
     NewRecord(ErrorResult(ErrNameError), <<>>, <<>>),
     NewRecord(ErrorResult(ErrNameError), <<>>, <<Attempt(1, FALSE, ErrSyntax)>>),
     NewRecord(ErrorResult(ErrNameError), <<>>, <<Attempt(1, TRUE, None)>>),
     NewRecord(OkResult, <<50>>, <<Attempt(1, TRUE, None)>>),
     LoopRecord,
     OldRecord}

SumInit ==
    /\ sum_log \in SeqsUpTo(LogRecords, MaxLogLen)
    /\ sum_saved = <<>>
    /\ sum_updated = <<>>
    /\ clock = 0
    /\ NoCalcVars
    /\ NoRecVars
    /\ NoSessVars
    /\ NoInspVars
    /\ NoRepVars

\* save_evaluation_metrics, from the summary on: the list in memory holds at
\* least the record just appended
SaveSummary ==
    /\ sum_saved = <<>>
    /\ sum_log # <<>>
    /\ sum_saved' = <<summarize(SessionId, sum_log, clock)>>
    /\ clock' = clock + 1
    /\ UNCHANGED <<sum_log, sum_updated, calcVars, recVars, sessVars, inspVars, repVars>>

\* update_all_metrics_summaries on the session directory: an empty log is
\* skipped
UpdateSummary ==
    /\ sum_updated = <<>>
    /\ sum_updated' =
            IF Len(sum_log) = 0
            THEN <<[written |-> FALSE, data |-> EmptyDict]>>
            ELSE <<[written |-> TRUE, data |-> update_summary(SessionId, sum_log, clock)]>>
    /\ clock' = clock + 1
    /\ UNCHANGED <<sum_log, sum_saved, calcVars, recVars, sessVars, inspVars, repVars>>

SumNext == SaveSummary \/ UpdateSummary

SpecSummary == SumInit /\ [][SumNext]_vars

(***************************************************************************)
(* SpecConc: two requests of one session inside the metrics block          *)
(***************************************************************************)
\* the request threads of the development server
Workers == {"t1", "t2"}

\* the local variables of a turn that has generated and run its code
TurnFrame(q, code, outcome) ==
    [question |-> q, generated_code |-> code,
     execution_result |-> outcome.result, execution_time |-> outcome.time] @@ NoFrame

TurnFrames ==
    {TurnFrame(q, code, o) : q \in SessionQuestions, code \in SessionCodes,
                             o \in UNION {Outcomes(c) : c \in SessionCodes}}

\* both requests have appended their user message and are about to compute
\* the metrics of their turn
ConcInit ==
    /\ chat_session =
            [csv_file |-> SessionCsv,
             messages |-> [i \in 1..Cardinality(Workers) |->
                              [type |-> "user",
                               content |-> CHOOSE q \in SessionQuestions : TRUE]],
             history |-> <<>>]
    /\ pc = [t \in Workers |-> "metrics"]
    /\ frame \in [Workers -> TurnFrames]
    /\ \A t \in Workers :
            [result |-> frame[t].execution_result, time |-> frame[t].execution_time]
                \in Outcomes(frame[t].generated_code)
    /\ response = [t \in Workers |-> <<>>]
    /\ metrics_file = FileAbsent
    /\ summary_file = FileAbsent
    /\ turns = Cardinality(Workers)
    /\ faults = 0
    /\ first_result = [t \in Workers |-> <<>>]
    /\ seen = [t \in Workers |-> NoSeen]
    /\ saved = <<>>
    /\ NoSumVars
    /\ NoInspVars
    /\ NoRepVars
    /\ NoCalcVars
    /\ NoRecVars
    /\ clock = 0

ConcNext ==
    \E t \in Workers :
        \/ CalculateMetrics(t)
        \/ LoadMetrics(t)
        \/ WriteMetrics(t)
        \/ WriteSummary(t)

SpecConc == ConcInit /\ [][ConcNext]_vars

(***************************************************************************)
(* Claims about the session (Spec)                                         *)
(***************************************************************************)
\* no call of save_evaluation_metrics is under way
NoSaveRunning == \A t \in Threads : pc[t] \notin {"write", "summary"}

\* C7: the recovery analyzer is given the outcome of the originally generated
\* code: the error_recovery of a turn is the analysis of its first execution's
\* outcome and its repair attempts, so a turn whose first execution failed has
\* has_error = TRUE also when a repair attempt succeeded.
C7_AnalyzerGetsOriginalOutcome ==
    \A t \in Threads :
        (frame[t].metrics # <<>> /\ first_result[t] # <<>>) =>
            LET recovery == frame[t].metrics[1].error_recovery
            IN  /\ recovery = analyze_error_recovery(first_result[t][1],
                                                     frame[t].recovery_attempts)
                /\ first_result[t][1].type = "error" => recovery.has_error

WriteStep(t) == pc[t] = "write" /\ pc'[t] # "write"

C10_SummaryMatchesLog ==
    (NoSaveRunning /\ summary_file # FileAbsent) =>
        /\ metrics_file.state = "ok"
        /\ summary_file.state = "ok"
        /\ summary_file.content.total_entries = Len(metrics_file.content)
        /\ summary_file.content =
                summarize(SessionId, metrics_file.content, summary_file.content.last_updated)

\* every request has returned
AllIdle == \A t \in Threads : pc[t] = "idle"

\* the turns send_message has processed: one user message each
ProcessedTurns ==
    Cardinality({i \in DOMAIN chat_session.messages : chat_session.messages[i].type = "user"})

\* C12: for every turn that send_message processes exactly one record is
\* computed and appended to the session's log: once the turns have returned,
\* save_evaluation_metrics was called once per turn and metrics.json holds one
\* record per turn.
C12_OneRecordPerTurn ==
    AllIdle =>
        /\ Len(saved) = ProcessedTurns
        /\ ProcessedTurns > 0 =>
                /\ metrics_file.state = "ok"
                /\ Len(metrics_file.content) = ProcessedTurns

\* the steps of the metrics block of send_message
MetricsSteps == {"metrics", "save", "write", "summary"}

\* what the turn replies with: the outcome, the code and the path it is on
Reply(f) == <<f.question, f.generated_code, f.execution_result, f.failed>>

\* C13: no failure of the metrics computation or of the persistence aborts the
\* turn: every step of the metrics block, failing or not, leaves the outcome,
\* the conversation and the response as they are and hands over to the reply
\* step of the path the turn is on; the reply step then records the history
\* entry and the assistant message and returns the response of that path.
C13_MetricsFailuresDoNotAbort ==
    [][\A t \in Threads :
        /\ pc[t] \in MetricsSteps =>
                /\ pc'[t] \in MetricsSteps \cup
                        {IF frame[t].failed THEN "error_reply" ELSE "history"}
                /\ chat_session' = chat_session
                /\ response' = response
                /\ Reply(frame'[t]) = Reply(frame[t])
        /\ pc[t] = "except" =>
                pc'[t] \in {"except", "save", "error_reply"}
        /\ (pc[t] = "history" /\ pc'[t] # "history") =>
                /\ chat_session'.history =
                        Append(chat_session.history,
                               [question |-> frame[t].question,
                                code |-> frame[t].generated_code,
                                result |-> frame[t].execution_result])
                /\ Len(chat_session'.messages) = Len(chat_session.messages) + 1
                /\ chat_session'.messages[Len(chat_session'.messages)].type = "assistant"
                /\ pc'[t] = "idle" =>
                        response'[t] = <<[status |-> 200, success |-> TRUE]>>
        /\ (pc[t] = "error_reply" /\ pc'[t] # "error_reply") =>
                /\ pc'[t] = "idle"
                /\ Len(chat_session'.messages) = Len(chat_session.messages) + 1
                /\ response'[t] = <<[status |-> 500, success |-> FALSE]>>
      ]_vars

\* a turn whose save failed has returned its result all the same
C13_Witness ==
    \E t \in Threads :
        /\ pc[t] = "idle"
        /\ faults > 0
        /\ metrics_file.state # "ok"
        /\ saved # <<>>
        /\ Len(chat_session.history) = 1
        /\ response[t] = <<[status |-> 200, success |-> TRUE]>>

(***************************************************************************)
(* Further claims about the session (Spec)                                 *)
(***************************************************************************)
\* the summary on disk, when there is one
SessionSummary == summary_file.content.summary

\* C27: in every session summary written after any sequence of turns,
\* successful_recoveries <= errors_encountered, so that recovery_success_rate
\* lies between 0 and 1.
C27_RecoveriesWithinErrors ==
    summary_file.state = "ok" =>
        /\ SessionSummary.successful_recoveries <= SessionSummary.errors_encountered
        /\ SessionSummary.recovery_success_rate[1] >= 0
        /\ SessionSummary.recovery_success_rate[1] <= SessionSummary.recovery_success_rate[2]


\* the repair attempts of the turn thread t is in
Attempts(t) == frame[t].recovery_attempts

FirstFailed(t) == first_result[t] # <<>> /\ first_result[t][1].type = "error"

\* C28: repair attempts are made only when the first execution returned an
\* error; at most 2 are made per turn; the loop stops at the first attempt
\* that succeeds and at no earlier one, so at most one attempt has success and
\* it is the last; an attempt that raised is in the list as a failed attempt;
\* the attempts are numbered 1, 2 in order.
C28_RepairLoop ==
    \A t \in Threads :
        /\ Attempts(t) # <<>> => FirstFailed(t)
        /\ Len(Attempts(t)) <= 2
        /\ \A i \in DOMAIN Attempts(t) :
            /\ Attempts(t)[i].attempt_number = i
            /\ Attempts(t)[i].success => i = Len(Attempts(t))
            /\ Attempts(t)[i].success = (Attempts(t)[i].error = None)
            /\ Attempts(t)[i].code = <<>> =>
                    /\ ~Attempts(t)[i].success
                    /\ Attempts(t)[i].error =
                            "Recovery attempt failed: Error generating code: timeout"
        /\ pc[t] = "repair" => /\ FirstFailed(t)
                               /\ Len(Attempts(t)) < 2
                               /\ \A i \in DOMAIN Attempts(t) : ~Attempts(t)[i].success
        /\ (pc[t] = "metrics" /\ FirstFailed(t)) =>
                \/ Len(Attempts(t)) = 2
                \/ Len(Attempts(t)) = 1 /\ Attempts(t)[1].success
        /\ (pc[t] = "metrics" /\ ~FirstFailed(t)) => Attempts(t) = <<>>

\* a turn whose first repair attempt raised and whose second one succeeded
C28_Witness ==
    \E t \in Threads :
        /\ pc[t] = "metrics"
        /\ FirstFailed(t)
        /\ Len(Attempts(t)) = 2
        /\ Attempts(t)[1].code = <<>> /\ ~Attempts(t)[1].success
        /\ Attempts(t)[2].success
        /\ frame[t].execution_result.type # "error"

(***************************************************************************)
(* Claims about the session summary (SpecSummary)                          *)
(***************************************************************************)
\* the summaries written so far, by either summarizer
Summaries ==
    {sum_saved[i] : i \in DOMAIN sum_saved}
    \cup {sum_updated[i].data : i \in {j \in DOMAIN sum_updated : sum_updated[j].written}}

HasError(m) == "error_recovery" \in DOMAIN m /\ m.error_recovery.has_error
Recovered(m) == "error_recovery" \in DOMAIN m /\ m.error_recovery.recovery_success

\* C11: in a session summary errors_encountered counts the records with
\* has_error, successful_recoveries the records with recovery_success, and
\* recovery_success_rate is successful_recoveries / errors_encountered when
\* errors_encountered > 0 and exactly 0 when no record has an error.
C11_RecoverySuccessRate ==
    \A s \in Summaries :
        LET errors == Cardinality({i \in DOMAIN sum_log : HasError(sum_log[i])})
            recovered == Cardinality({i \in DOMAIN sum_log : Recovered(sum_log[i])})
            rate == s.summary.recovery_success_rate
        IN  /\ s.summary.errors_encountered = errors
            /\ s.summary.successful_recoveries = recovered
            /\ rate[2] > 0
            /\ errors > 0 => rate[1] * errors = recovered * rate[2]
            /\ errors = 0 => rate[1] = 0

\* both summarizers ran on a log with two errors of which one was recovered
C11_Witness ==
    /\ sum_saved # <<>>
    /\ sum_updated # <<>>
    /\ sum_updated[1].written
    /\ \A s \in Summaries :
        /\ s.summary.errors_encountered = 2
        /\ s.summary.successful_recoveries = 1
        /\ s.summary.recovery_success_rate = <<1, 2>>

\* the records of the log all come from calculate_evaluation_metrics as it is
FromCalculate ==
    \A i \in DOMAIN sum_log :
        {"prompt_understanding", "requirement_coverage", "error_recovery"}
            \subseteq DOMAIN sum_log[i]


\* C29: in a summary built from records of calculate_evaluation_metrics,
\* total_entries = total_questions = the number of records,
\* successful_executions + errors_encountered = total_entries, and the counts
\* of time_complexity_distribution and of space_complexity_distribution each
\* add up to total_entries.
C29_SummaryCounts ==
    FromCalculate =>
        \A s \in Summaries :
            /\ s.total_entries = Len(sum_log)
            /\ s.summary.total_questions = Len(sum_log)
            /\ s.summary.successful_executions + s.summary.errors_encountered
                    = s.total_entries
            /\ SumFn(s.summary.time_complexity_distribution) = s.total_entries
            /\ SumFn(s.summary.space_complexity_distribution) = s.total_entries

\* both summarizers ran on a log of a clean and a failed turn whose codes are
\* of different time complexity
C29_Witness ==
    /\ FromCalculate
    /\ sum_saved # <<>>
    /\ sum_updated # <<>>
    /\ sum_updated[1].written
    /\ \A s \in Summaries :
        /\ s.total_entries = 2
        /\ s.summary.successful_executions = 1
        /\ s.summary.errors_encountered = 1
        /\ Cardinality(DOMAIN s.summary.time_complexity_distribution) = 2

\* C30: the two summarizers agree: for every non-empty log, records without
\* the prompt_understanding, requirement_coverage or error_recovery
\* sub-records included, the summary update_all_metrics_summaries writes has
\* the counts, averages, rates and histograms of the summary
\* save_evaluation_metrics wrote for that log.
C30_SummarizersAgree ==
    (sum_saved # <<>> /\ sum_updated # <<>>) =>
        /\ sum_updated[1].written
        /\ sum_updated[1].data.total_entries = sum_saved[1].total_entries
        /\ sum_updated[1].data.summary = sum_saved[1].summary

(***************************************************************************)
(* Claims on SpecConc                                                      *)
(***************************************************************************)
\* both requests have left the metrics block
ConcDone == \A t \in Workers : pc[t] \notin MetricsSteps

\* C14: when several turns of one session are handled concurrently and no I/O
\* operation fails, every one of their records ends up in metrics.json and the
\* summary written last counts all of them.
C14_ConcurrentAppendsAllKept ==
    (ConcDone /\ faults = 0) =>
        /\ metrics_file.state = "ok"
        /\ Len(metrics_file.content) = Len(saved)
        /\ \A i \in DOMAIN saved :
                \E j \in DOMAIN metrics_file.content : metrics_file.content[j] = saved[i]
        /\ summary_file.state = "ok"
        /\ summary_file.content.total_entries = Len(saved)

====
